---------------------------- MODULE Spec2Model ----------------------------
(***************************************************************************)
(* A model of the nofakes-demo REST service: the two business repositories *)
(* (createInMemDb, createMongoDbStore), the create-business operation and  *)
(* the HTTP handlers of startServer.                                       *)
(*                                                                         *)
(* Conventions.                                                            *)
(*  - A JavaScript string is a TLA+ string.                                *)
(*  - A JavaScript number that may carry a decimal (a rating, avg_rating)  *)
(*    is the integer count of its tenths: 55 is 5.5, 32 is 3.2.  Counters  *)
(*    and lengths (total_reviews, businessIdCounter) are plain integers.   *)
(*    On ratings that are multiples of 0.5 in [0, 6] and up to 400 reviews *)
(*    the IEEE double computation Math.floor((sum / n) * 10) equals the    *)
(*    exact floor of 10 * sum / n, so AvgRating below is exact there.      *)
(*  - A Date is the integer reading of the clock at its creation.          *)
(*  - An object is a record; object spread is record override (Spread).    *)
(***************************************************************************)
EXTENDS Integers, Sequences, FiniteSets, TLC

VARIABLES
    impl,               \* which repository startServer was given
    businesses,         \* createInMemDb: const businesses
    businessIdCounter,  \* createInMemDb: let businessIdCounter
    reviews,            \* createInMemDb: const reviews
    businessCol,        \* createMongoDbStore: the 'business' collection
    now,                \* the clock read by new Date()
    running,            \* the server process is alive
    last,               \* the last operation: what was asked, what came back
    created,            \* history: the createReview calls that returned success
    issued,             \* history: the businesses the repository created
    reviewsIdCounter,   \* createInMemDb of src/src/server.ts: let reviewsIdCounter
    peer,               \* the store of a second call of createInMemDb()
    inflight            \* the operations begun and waiting at an await

vars == <<impl, businesses, businessIdCounter, reviews, businessCol, now, running,
          last, created, issued, reviewsIdCounter, peer, inflight>>

---------------------------------------------------------------------------
(* Strings *)

Digits == {"0", "1", "2", "3", "4", "5", "6", "7", "8", "9"}
HexLower == {"a", "b", "c", "d", "e", "f"}
HexUpper == {"A", "B", "C", "D", "E", "F"}
HexChars == Digits \cup HexLower \cup HexUpper
Letters ==
    {"a", "b", "c", "d", "e", "f", "g", "h", "i", "j", "k", "l", "m",
     "n", "o", "p", "q", "r", "s", "t", "u", "v", "w", "x", "y", "z",
     "A", "B", "C", "D", "E", "F", "G", "H", "I", "J", "K", "L", "M",
     "N", "O", "P", "Q", "R", "S", "T", "U", "V", "W", "X", "Y", "Z"}
AlnumChars == Digits \cup Letters

\* c repeated n times
RECURSIVE Repeat(_, _)
Repeat(c, n) ==
    IF n = 0 THEN ""
    ELSE IF n % 2 = 0 THEN LET h == Repeat(c, n \div 2) IN h \o h
    ELSE c \o Repeat(c, n - 1)

\* every character of s is in set
RECURSIVE AllIn(_, _)
AllIn(s, set) == s = "" \/ (Head(s) \in set /\ AllIn(Tail(s), set))

\* the longest prefix of s made of characters of set
RECURSIVE PrefixIn(_, _)
PrefixIn(s, set) ==
    IF s = "" \/ Head(s) \notin set THEN ""
    ELSE Head(s) \o PrefixIn(Tail(s), set)

\* String.prototype.split('/')
RECURSIVE SplitFrom(_, _)
SplitFrom(s, cur) ==
    IF s = "" THEN <<cur>>
    ELSE IF Head(s) = "/" THEN <<cur>> \o SplitFrom(Tail(s), "")
    ELSE SplitFrom(Tail(s), cur \o Head(s))

Split(s) == SplitFrom(s, "")

\* String.prototype.toLowerCase on hexadecimal digits
LowerChar(c) ==
    CASE c = "A" -> "a" [] c = "B" -> "b" [] c = "C" -> "c"
      [] c = "D" -> "d" [] c = "E" -> "e" [] c = "F" -> "f"
      [] OTHER -> c

RECURSIVE ToLower(_)
ToLower(s) == IF s = "" THEN "" ELSE LowerChar(Head(s)) \o ToLower(Tail(s))

\* Number.prototype.toString for a non-negative integer
RECURSIVE NatToString(_)
NatToString(n) ==
    LET d == CHOOSE c \in Digits :
                 c = <<"0", "1", "2", "3", "4", "5", "6", "7", "8", "9">>[(n % 10) + 1]
    IN IF n < 10 THEN d ELSE NatToString(n \div 10) \o d

\* object spread  { ...under, ...over }: the keys of both, over's values winning
Spread(under, over) == over @@ under

Undefined == "undefined"

\* F(v), with v evaluated once however often F uses it
Let(v, F(_)) == CHOOSE r \in {F(x) : x \in {v}} : TRUE

---------------------------------------------------------------------------
(* Bounds and inputs *)

MaxBusinesses == 2      \* businesses created in one run
MaxReviews == 4         \* reviews stored in one run
MaxClock == 3           \* last reading of the clock

\* the limits of the handlers
OnlineNameMax == 75
PhysicalNameMax == 50
ReviewTextMin == 20
ReviewTextMax == 500
LatestReviewsShown == 3
ObjectIdHexLen == 24

---------------------------------------------------------------------------
(* Results of the repository operations (core.RepositoryEditResult,        *)
(* core.RepositoryFetchResult)                                             *)

Success(v) == [type |-> "success", value |-> v]
RecordNotFound == [type |-> "record_not_found"]
DatabaseError(message) == [type |-> "database_error", error |-> message]

\* what a repository operation leaves behind: the store and its result
Outcome(db, result) == [db |-> db, result |-> result]

\* the position of the first element of seq satisfying Test, 0 if none
\* (Array.prototype.find)
FindIndex(seq, Test(_)) ==
    IF \E i \in 1..Len(seq) : Test(seq[i])
    THEN CHOOSE i \in 1..Len(seq) :
             Test(seq[i]) /\ \A j \in 1..(i - 1) : ~Test(seq[j])
    ELSE 0

\* Array.prototype.reduce((prev, curr) => prev + curr.rating, 0)
RECURSIVE RatingsSum(_)
RatingsSum(rs) ==
    IF rs = <<>> THEN 0 ELSE RatingsSum(SubSeq(rs, 1, Len(rs) - 1)) + rs[Len(rs)].rating

\* a plausible slip: Math.round in place of Math.floor
AvgRatingRounded(ratingsSum, totalReviews) ==
    IF totalReviews # 0
    THEN (2 * ratingsSum + totalReviews) \div (2 * totalReviews)
    ELSE 0

\* avg_rating = ratingsSum / totalReviews; Math.floor(avg_rating * 10) / 10,
\* in tenths (ratingsSum is a count of tenths already)
AvgRating(ratingsSum, totalReviews) ==
    IF totalReviews # 0 THEN ratingsSum \div totalReviews ELSE 0

\* a variant of the sort that puts a review before those of its own date
RECURSIVE InsertByDateTiesFirst(_, _)
InsertByDateTiesFirst(seq, r) ==
    IF seq = <<>> THEN <<r>>
    ELSE IF r.creation_date - Head(seq).creation_date >= 0
         THEN <<r>> \o seq
         ELSE <<Head(seq)>> \o InsertByDateTiesFirst(Tail(seq), r)

\* seq with r put after every element that the comparator
\* (prev, next) => next.creation_date - prev.creation_date does not order after it
RECURSIVE InsertByDate(_, _)
InsertByDate(seq, r) ==
    IF seq = <<>> THEN <<r>>
    ELSE IF r.creation_date - Head(seq).creation_date > 0
         THEN <<r>> \o seq
         ELSE <<Head(seq)>> \o InsertByDate(Tail(seq), r)

\* a variant of the sort that is not stable: it takes the elements from the
\* last to the first, and leaves those of one date in reverse
RECURSIVE SortByDateDescUnstable(_)
SortByDateDescUnstable(seq) ==
    IF seq = <<>> THEN <<>>
    ELSE InsertByDate(SortByDateDescUnstable(Tail(seq)), Head(seq))

\* Array.prototype.sort with that comparator: stable, newest first
RECURSIVE SortByDateDesc(_)
SortByDateDesc(seq) ==
    IF seq = <<>> THEN <<>>
    ELSE InsertByDate(SortByDateDesc(SubSeq(seq, 1, Len(seq) - 1)), seq[Len(seq)])

\* Array.prototype.slice(0, n)
Slice(seq, n) == SubSeq(seq, 1, IF Len(seq) < n THEN Len(seq) ELSE n)

---------------------------------------------------------------------------
(* createInMemDb.  db.businesses, db.businessIdCounter and db.reviews are  *)
(* the closure's variables; db.now is the clock, set to the reading of     *)
(* each new Date().                                                        *)

InMemCreateOnlineBusiness(db, data) ==
    LET counter == db.businessIdCounter + 1
        business == [id |-> NatToString(counter),
                     name |-> data.name,
                     website |-> data.website,
                     email |-> data.email,
                     total_reviews |-> 0,
                     avg_rating |-> 0,
                     latest_reviews |-> <<>>]
    IN Outcome([db EXCEPT !.businessIdCounter = counter,
                          !.businesses = Append(@, [type |-> "online", value |-> business])],
               Success(business))

\* a variant of createPhysicalBusiness that numbers the physical businesses
\* on their own
InMemCreatePhysicalBusinessOwnCounter(db, data) ==
    LET physical == SelectSeq(db.businesses, LAMBDA b : b.type = "physical")
        business == [id |-> NatToString(Len(physical) + 1),
                     name |-> data.name,
                     address |-> data.address,
                     phone |-> data.phone,
                     email |-> data.email,
                     total_reviews |-> 0,
                     avg_rating |-> 0,
                     latest_reviews |-> <<>>]
    IN Outcome([db EXCEPT !.businessIdCounter = @ + 1,
                          !.businesses = Append(@, [type |-> "physical", value |-> business])],
               Success(business))

InMemCreatePhysicalBusiness(db, data) ==
    LET counter == db.businessIdCounter + 1
        business == [id |-> NatToString(counter),
                     name |-> data.name,
                     address |-> data.address,
                     phone |-> data.phone,
                     email |-> data.email,
                     total_reviews |-> 0,
                     avg_rating |-> 0,
                     latest_reviews |-> <<>>]
    IN Outcome([db EXCEPT !.businessIdCounter = counter,
                          !.businesses = Append(@, [type |-> "physical", value |-> business])],
               Success(business))

\* sort() sorts the stored array in place; the sliced copy is set on the
\* wrapper { type, value }, beside value, not inside it
InMemGetBusiness(db, id) ==
    LET Has(b) == b.value.id = id
        Found(i) ==
            IF i = 0 THEN Outcome(db, RecordNotFound)
            ELSE LET Sorted(sortedAll) ==
                         LET inMemBusiness ==
                                 [db.businesses[i] EXCEPT !.value.latest_reviews = sortedAll]
                             sorted == Slice(sortedAll, LatestReviewsShown)
                             business == Spread(inMemBusiness, [latest_reviews |-> sorted])
                         IN Outcome([db EXCEPT !.businesses[i] = inMemBusiness],
                                    Success(business))
                 IN Let(SortByDateDesc(db.businesses[i].value.latest_reviews), Sorted)
    IN Let(FindIndex(db.businesses, Has), Found)

\* a variant of createReview that pushes the review before it looks for the
\* business
InMemCreateReviewPushFirst(db, businessId, data, date) ==
    LET Has(b) == b.value.id = businessId
        newReview == [business_id |-> businessId,
                      username |-> data.username,
                      rating |-> data.rating,
                      text |-> data.text,
                      creation_date |-> date]
        pushed == [db EXCEPT !.now = date, !.reviews = Append(@, newReview)]
        Found(i) ==
            IF i = 0 THEN Outcome(pushed, DatabaseError("Business not found"))
            ELSE LET Pushed(latest) ==
                         Outcome([pushed EXCEPT
                                      !.businesses[i].value.total_reviews = @ + 1,
                                      !.businesses[i].value.latest_reviews = latest,
                                      !.businesses[i].value.avg_rating =
                                          AvgRating(RatingsSum(latest), Len(latest))],
                                 Success(newReview))
                 IN Let(Append(db.businesses[i].value.latest_reviews, newReview), Pushed)
    IN Let(FindIndex(db.businesses, Has), Found)

\* a variant of createReview that keeps the three latest reviews only in
\* latest_reviews
InMemCreateReviewKeepsThree(db, businessId, data, date) ==
    LET Has(b) == b.value.id = businessId
        newReview == [business_id |-> businessId,
                      username |-> data.username,
                      rating |-> data.rating,
                      text |-> data.text,
                      creation_date |-> date]
        Found(i) ==
            IF i = 0 THEN Outcome(db, DatabaseError("Business not found"))
            ELSE LET Pushed(latest) ==
                         Outcome([db EXCEPT !.now = date,
                                            !.reviews = Append(@, newReview),
                                            !.businesses[i].value.total_reviews = @ + 1,
                                            !.businesses[i].value.latest_reviews = latest,
                                            !.businesses[i].value.avg_rating =
                                                AvgRating(RatingsSum(latest), Len(latest))],
                                 Success(newReview))
                     all == Append(db.businesses[i].value.latest_reviews, newReview)
                 IN Let(SubSeq(all, IF Len(all) > 3 THEN Len(all) - 2 ELSE 1, Len(all)),
                        Pushed)
    IN Let(FindIndex(db.businesses, Has), Found)

InMemCreateReview(db, businessId, data, date) ==
    LET Has(b) == b.value.id = businessId
        newReview == [business_id |-> businessId,
                      username |-> data.username,
                      rating |-> data.rating,
                      text |-> data.text,
                      creation_date |-> date]
        Found(i) ==
            IF i = 0 THEN Outcome(db, DatabaseError("Business not found"))
            ELSE LET Pushed(latest) ==
                         LET ratingsSum == RatingsSum(latest)
                             totalReviews == Len(latest)
                         IN Outcome([db EXCEPT !.now = date,
                                               !.reviews = Append(@, newReview),
                                               !.businesses[i].value.total_reviews = @ + 1,
                                               !.businesses[i].value.latest_reviews = latest,
                                               !.businesses[i].value.avg_rating =
                                                   AvgRating(ratingsSum, totalReviews)],
                                    Success(newReview))
                 IN Let(Append(db.businesses[i].value.latest_reviews, newReview), Pushed)
    IN Let(FindIndex(db.businesses, Has), Found)

---------------------------------------------------------------------------
(* createMongoDbStore.  db.businessCol is the 'business' collection, its   *)
(* documents in insertion order.  An ObjectId is the lower-case form of    *)
(* its 24 hexadecimal digits.                                              *)

\* the strings mongo.ObjectId.createFromHexString accepts
IsObjectIdHex(s) == Len(s) = ObjectIdHexLen /\ AllIn(s, HexChars)

\* ObjectId.createFromHexString(s), for a string it accepts
CreateFromHexString(s) == ToLower(s)

BSONErrorMessage == "Argument passed in must be a string of 24 hex characters"

\* businessCol.findOne({ _id: mongoId }): the position of the document, 0 for null
FindOne(col, mongoId) ==
    LET Has(doc) == doc._id = mongoId IN FindIndex(col, Has)

MongoCreateOnlineBusiness(db, data, insertedId) ==
    LET doc == [_id |-> insertedId,
                type |-> "online",
                name |-> data.name,
                website |-> data.website,
                email |-> data.email,
                total_reviews |-> 0,
                avg_rating |-> 0,
                latest_reviews |-> <<>>]
    IN Outcome([db EXCEPT !.businessCol = Append(@, doc)],
               Success([id |-> insertedId,
                        name |-> data.name,
                        website |-> data.website,
                        email |-> data.email,
                        total_reviews |-> 0,
                        avg_rating |-> 0,
                        latest_reviews |-> <<>>]))

MongoCreatePhysicalBusiness(db, data, insertedId) ==
    LET doc == [_id |-> insertedId,
                type |-> "physical",
                name |-> data.name,
                address |-> data.address,
                phone |-> data.phone,
                email |-> data.email,
                total_reviews |-> 0,
                avg_rating |-> 0,
                latest_reviews |-> <<>>]
    IN Outcome([db EXCEPT !.businessCol = Append(@, doc)],
               Success([id |-> insertedId,
                        name |-> data.name,
                        address |-> data.address,
                        phone |-> data.phone,
                        email |-> data.email,
                        total_reviews |-> 0,
                        avg_rating |-> 0,
                        latest_reviews |-> <<>>]))

\* a variant of toBusiness that lists the reviews newest first
ToBusinessNewestFirst(doc) ==
    [type |-> doc.type,
     value |-> Spread(doc, [id |-> doc._id,
                            latest_reviews |-> SortByDateDesc(doc.latest_reviews)])]

\* MongoBusinessCollection.toBusiness
ToBusiness(doc) == [type |-> doc.type, value |-> Spread(doc, [id |-> doc._id])]

\* a variant of getBusiness that reports a missing document as createReview
\* does, as an error
MongoGetBusinessNullIsError(db, id) ==
    LET Found(i) ==
            IF i = 0 THEN Outcome(db, DatabaseError("business does not exist"))
            ELSE Outcome(db, Success(ToBusiness(db.businessCol[i])))
    IN IF ~IsObjectIdHex(id) THEN Outcome(db, DatabaseError(BSONErrorMessage))
       ELSE Let(FindOne(db.businessCol, CreateFromHexString(id)), Found)

\* createFromHexString throws a BSONError, an Error, on any other string;
\* handleMongoErr turns it into database_error
MongoGetBusiness(db, id) ==
    LET Found(i) ==
            IF i = 0 THEN Outcome(db, RecordNotFound)
            ELSE Outcome(db, Success(ToBusiness(db.businessCol[i])))
    IN IF ~IsObjectIdHex(id) THEN Outcome(db, DatabaseError(BSONErrorMessage))
       ELSE Let(FindOne(db.businessCol, CreateFromHexString(id)), Found)

\* date is the clock at 'const newReview', date2 the clock at the push
MongoCreateReview(db, businessId, data, date, date2) ==
    LET newReview == Spread([business_id |-> businessId, creation_date |-> date], data)
        read == [db EXCEPT !.now = date]
        Found(i) ==
            IF i = 0 THEN Outcome(read, DatabaseError("business does not exist"))
            ELSE LET Pushed(latest) ==
                         LET ratingsSum == RatingsSum(latest)
                             totalReviews == Len(latest)
                             business == [db.businessCol[i] EXCEPT
                                              !.latest_reviews = latest,
                                              !.total_reviews = totalReviews,
                                              !.avg_rating =
                                                  AvgRating(ratingsSum, totalReviews)]
                         IN Outcome([db EXCEPT !.now = date2, !.businessCol[i] = business],
                                    Success(newReview))
                 IN Let(Append(db.businessCol[i].latest_reviews,
                               Spread(data, [business_id |-> businessId,
                                             creation_date |-> date2])),
                        Pushed)
    IN IF ~IsObjectIdHex(businessId) THEN Outcome(read, DatabaseError(BSONErrorMessage))
       ELSE Let(FindOne(db.businessCol, CreateFromHexString(businessId)), Found)

---------------------------------------------------------------------------
(* createMongoDbStore.createReview in its two store operations: findOne,   *)
(* and after its await replaceOne                                          *)

\* a call waiting at an await, with what it holds
Pending(db, held) == [db |-> db, pending |-> held]

\* createReview up to findOne and what findOne returns: the call ends here
\* for an id that is no object id and for a business that does not exist;
\* otherwise it holds its own copy of the document
MongoCreateReviewFindOne(db, businessId, data, date) ==
    LET newReview == Spread([business_id |-> businessId, creation_date |-> date], data)
        read == [db EXCEPT !.now = date]
        Found(i) ==
            IF i = 0 THEN Outcome(read, DatabaseError("business does not exist"))
            ELSE Pending(read, [businessId |-> businessId,
                                data |-> data,
                                newReview |-> newReview,
                                mongoId |-> CreateFromHexString(businessId),
                                business |-> db.businessCol[i]])
    IN IF ~IsObjectIdHex(businessId) THEN Outcome(read, DatabaseError(BSONErrorMessage))
       ELSE Let(FindOne(db.businessCol, CreateFromHexString(businessId)), Found)

\* a variant of the write that pushes the review to the stored document, as
\* an update with $push would
MongoCreateReviewReplaceOnePush(db, held, date2) ==
    LET i == FindOne(db.businessCol, held.mongoId)
        latest == Append(db.businessCol[i].latest_reviews,
                         Spread(held.data, [business_id |-> held.businessId,
                                            creation_date |-> date2]))
        business == [db.businessCol[i] EXCEPT
                         !.latest_reviews = latest,
                         !.total_reviews = Len(latest),
                         !.avg_rating = AvgRating(RatingsSum(latest), Len(latest))]
    IN Outcome([db EXCEPT !.now = date2, !.businessCol[i] = business],
               Success(held.newReview))

\* createReview from the document findOne returned: the review is pushed to
\* the copy held, the aggregates are computed from the copy, and
\* replaceOne(query, business) puts the copy in the place of the stored
\* document
MongoCreateReviewReplaceOne(db, held, date2) ==
    LET Pushed(latest) ==
            LET ratingsSum == RatingsSum(latest)
                totalReviews == Len(latest)
                business == [held.business EXCEPT
                                 !.latest_reviews = latest,
                                 !.total_reviews = totalReviews,
                                 !.avg_rating = AvgRating(ratingsSum, totalReviews)]
                Replaced(i) ==
                    Outcome(IF i = 0 THEN [db EXCEPT !.now = date2]
                            ELSE [db EXCEPT !.now = date2, !.businessCol[i] = business],
                            Success(held.newReview))
            IN Let(FindOne(db.businessCol, held.mongoId), Replaced)
    IN Let(Append(held.business.latest_reviews,
                  Spread(held.data, [business_id |-> held.businessId,
                                     creation_date |-> date2])),
           Pushed)

---------------------------------------------------------------------------
(* The repository handed to startServer and createBusiness, core.          *)
(* BusinessRepository: createInMemDb() or createMongoDbStore().  A call is *)
(* recorded with its operation, its arguments and its result.              *)

Call(op, args, result) == [op |-> op, args |-> args, result |-> result]

\* a rejected promise: the store as it was left and the value thrown
Rejected(db, thrown) == [db |-> db, thrown |-> thrown]

\* the value a driver call raises: an Error with its message, or a value
\* that is no Error
ErrorRaised(message) == [isError |-> TRUE, value |-> message]
OtherRaised(value) == [isError |-> FALSE, value |-> value]

\* handleMongoErr(err): database_error for an Error; any other value is
\* thrown up the chain
HandleMongoErr(db, err) ==
    IF err.isError THEN Outcome(db, DatabaseError(err.value))
    ELSE Rejected(db, err.value)

\* db.raises, when present, is what the driver raises at the first call
\* (insertOne, findOne) an operation of the document store makes of it
DriverRaises(db) == "raises" \in DOMAIN db

DbCreateOnlineBusiness(repo, db, data, insertedId) ==
    IF repo = "inmem" THEN InMemCreateOnlineBusiness(db, data)
    ELSE IF DriverRaises(db) THEN HandleMongoErr(db, db.raises)
    ELSE MongoCreateOnlineBusiness(db, data, insertedId)

DbCreatePhysicalBusiness(repo, db, data, insertedId) ==
    IF repo = "inmem" THEN InMemCreatePhysicalBusiness(db, data)
    ELSE IF DriverRaises(db) THEN HandleMongoErr(db, db.raises)
    ELSE MongoCreatePhysicalBusiness(db, data, insertedId)

\* createFromHexString comes before findOne
DbGetBusiness(repo, db, id) ==
    IF repo = "inmem" THEN InMemGetBusiness(db, id)
    ELSE IF DriverRaises(db) /\ IsObjectIdHex(id) THEN HandleMongoErr(db, db.raises)
    ELSE MongoGetBusiness(db, id)

\* a variant of createReview that refuses a rating above 5
DbCreateReviewRatingChecked(repo, db, businessId, data, date, date2) ==
    IF data.rating > 50 THEN Outcome(db, DatabaseError("Rating is out of range"))
    ELSE IF repo = "inmem" THEN InMemCreateReview(db, businessId, data, date)
    ELSE MongoCreateReview(db, businessId, data, date, date2)

\* the clock is read, and createFromHexString called, before findOne
DbCreateReview(repo, db, businessId, data, date, date2) ==
    IF repo = "inmem" THEN InMemCreateReview(db, businessId, data, date)
    ELSE IF DriverRaises(db) /\ IsObjectIdHex(businessId)
    THEN HandleMongoErr([db EXCEPT !.now = date], db.raises)
    ELSE MongoCreateReview(db, businessId, data, date, date2)

---------------------------------------------------------------------------
(* createBusiness(input, db, log): undefined on success, an Error (its     *)
(* message) otherwise                                                      *)

\* what an operation above the repository leaves behind
Done(db, result, calls, logs) ==
    [db |-> db, result |-> result, calls |-> calls, logs |-> logs]

LogLine(lvl, msg) == [lvl |-> lvl, msg |-> msg]

CreateBusiness(repo, db, input, insertedId) ==
    LET business == input.value
        Created(op) ==
            LET After(o) ==
                    LET calls == <<Call(op, <<business>>, o.result)>>
                    IN IF o.result.type = "database_error"
                       THEN Done(o.db, "Database error: " \o o.result.error, calls, <<>>)
                       ELSE Done(o.db, Undefined, calls,
                                 <<LogLine("info",
                                           "Created new business " \o o.result.value.name)>>)
            IN Let(IF op = "createOnlineBusiness"
                   THEN DbCreateOnlineBusiness(repo, db, business, insertedId)
                   ELSE DbCreatePhysicalBusiness(repo, db, business, insertedId),
                   After)
    IN IF input.type = "online" THEN
           IF Len(business.name) > OnlineNameMax
           THEN Done(db, "Business name is too long", <<>>, <<>>)
           ELSE Created("createOnlineBusiness")
       ELSE
           IF Len(business.name) > PhysicalNameMax
           THEN Done(db, "Business name is too long", <<>>, <<>>)
           ELSE Created("createPhysicalBusiness")

---------------------------------------------------------------------------
(* JSON.  A JSON value carries its type: a string, a number (in tenths) or *)
(* an object (a record of JSON values).  A JSON text is a sequence of      *)
(* tokens; an object's text is "{", its members, "}".                      *)

JStr(s) == [string |-> s]
JNum(n) == [number |-> n]
JObj(fields) == [object |-> fields]
TypeOf(json) == CHOOSE t \in DOMAIN json : TRUE

OpenBrace == [tok |-> "{"]
CloseBrace == [tok |-> "}"]
Members(fields) == [tok |-> "members", fields |-> fields]

\* JSON.stringify of an object
Stringify(fields) == <<OpenBrace, Members(fields), CloseBrace>>

\* JSON.parse: the value, or the SyntaxError it throws
JsonParse(text) ==
    IF Len(text) = 3 /\ text[1] = OpenBrace /\ text[2].tok = "members" /\ text[3] = CloseBrace
    THEN [ok |-> TRUE, value |-> JObj(text[2].fields)]
    ELSE [ok |-> FALSE, error |-> "SyntaxError"]

\* parseJson(req): body takes the chunk of the first 'data' event (once),
\* and is parsed at 'end'; the promise resolves or rejects
ParseJson(req) ==
    LET body == IF req.chunks = <<>> THEN <<>> ELSE req.chunks[1]
    IN JsonParse(body)

\* postReviewJson.safeParse: z.object({text: z.string(), rating: z.number(),
\* username: z.string()}); keys the schema does not name are stripped
PostReviewJsonSafeParse(json) ==
    IF /\ TypeOf(json) = "object"
       /\ {"text", "rating", "username"} \subseteq DOMAIN json.object
       /\ TypeOf(json.object.text) = "string"
       /\ TypeOf(json.object.rating) = "number"
       /\ TypeOf(json.object.username) = "string"
    THEN [success |-> TRUE,
          data |-> [text |-> json.object.text.string,
                    rating |-> json.object.rating.number,
                    username |-> json.object.username.string]]
    ELSE [success |-> FALSE]

---------------------------------------------------------------------------
(* core.createBusinessInput                                                *)

\* z.object of z.string() members: the named members, each a string of any
\* length; other keys are stripped
StringsSafeParse(json, keys) ==
    IF /\ TypeOf(json) = "object"
       /\ keys \subseteq DOMAIN json.object
       /\ \A k \in keys : TypeOf(json.object[k]) = "string"
    THEN [success |-> TRUE, data |-> [k \in keys |-> json.object[k].string]]
    ELSE [success |-> FALSE]

\* createBusinessInput.safeParse: z.discriminatedUnion('type', [online,
\* physical]) over createOnlineBusinessInput and createPhysicalBusinessInput
CreateBusinessInputSafeParse(json) ==
    LET Value(keys) ==
            LET Checked(v) ==
                    IF v.success
                    THEN [success |-> TRUE,
                          data |-> [type |-> json.object.type.string, value |-> v.data]]
                    ELSE [success |-> FALSE]
            IN Let(StringsSafeParse(json.object.value, keys), Checked)
    IN IF ~(/\ TypeOf(json) = "object"
            /\ {"type", "value"} \subseteq DOMAIN json.object
            /\ TypeOf(json.object.type) = "string")
       THEN [success |-> FALSE]
       ELSE IF json.object.type.string = "online"
       THEN Value({"name", "website", "email"})
       ELSE IF json.object.type.string = "physical"
       THEN Value({"name", "address", "phone", "email"})
       ELSE [success |-> FALSE]

---------------------------------------------------------------------------
(* The HTTP server of startServer                                          *)

\* the http.ServerResponse of a request before anything is written to it;
\* heads and ends count the calls of writeHead and of end
NewServerResponse == [heads |-> 0, ends |-> 0]

\* res.writeHead(status, { 'Content-Type': contentType })
ResWriteHead(res, status, contentType) ==
    Spread(res, [status |-> status, contentType |-> contentType,
                 heads |-> res.heads + 1])

\* res.end(body)
ResEnd(res, body) == Spread(res, [body |-> body, ends |-> res.ends + 1])

\* one writeHead and one end on the response of the request
Response(status, contentType, body) ==
    ResEnd(ResWriteHead(NewServerResponse, status, contentType), body)

StatusBadRequest == 400
StatusNotFound == 404
StatusOk == 200
StatusCreated == 201
StatusInternalError == 500

WriteError(message) == Response(StatusBadRequest, "text/plain", message)
WriteNotFoundError(message) == Response(StatusNotFound, "text/plain", message)
WriteJson(json) == Response(StatusOk, "application/json", json)

\* safeParseInt: parseInt reads the longest prefix of decimal digits (of
\* hexadecimal digits after "0x"); NaN, hence undefined, when there is none.
\* The number is carried as its numeral.
SafeParseInt(unparsed) ==
    LET hex == Len(unparsed) >= 2 /\ SubSeq(unparsed, 1, 2) \in {"0x", "0X"}
        numeral == IF hex THEN PrefixIn(SubSeq(unparsed, 3, Len(unparsed)), HexChars)
                   ELSE PrefixIn(unparsed, Digits)
    IN IF numeral = "" THEN Undefined ELSE numeral

\* matchesPath(url, path)
MatchesPath(pathname, path) ==
    Len(pathname) >= Len(path) /\ SubSeq(pathname, 1, Len(path)) = path

\* getPathParam(url), on parts = url.pathname.split('/')
GetPathParam(parts) == parts[Len(parts)]

\* /\/business\/[a-zA-Z0-9]+$/.test(url.pathname), on the parts of the path:
\* the match ends the path and begins at a slash
IsBusinessIdPath(parts) ==
    LET n == Len(parts)
    IN /\ n >= 3
       /\ parts[n - 1] = "business"
       /\ parts[n] # "" /\ AllIn(parts[n], AlnumChars)

\* /\/business\/[a-zA-Z0-9]+\/reviews$/.test(url.pathname), likewise
IsBusinessReviewsPath(parts) ==
    LET n == Len(parts)
    IN /\ n >= 4
       /\ parts[n - 2] = "business"
       /\ parts[n - 1] # "" /\ AllIn(parts[n - 1], AlnumChars)
       /\ parts[n] = "reviews"

\* what a handler leaves behind: the store, the response written, the
\* repository calls made and the lines logged
Handled(db, res, calls, logs) == [db |-> db, res |-> res, calls |-> calls, logs |-> logs]

\* a variant of getBusinessHandler that writes the business as the
\* repository returns it, { type, value }
GetBusinessHandlerNested(repo, db, businessId) ==
    LET After(o) ==
            LET calls == <<Call("getBusiness", <<businessId>>, o.result)>>
            IN CASE o.result.type = "record_not_found" ->
                      Handled(o.db,
                              WriteNotFoundError("Business with id " \o businessId
                                                 \o " not found"),
                              calls, <<>>)
                 [] o.result.type = "database_error" ->
                      Handled(o.db, WriteError("Database error happened"), calls,
                              <<LogLine("error", o.result.error)>>)
                 [] o.result.type = "success" ->
                      Handled(o.db, WriteJson(o.result.value), calls, <<>>)
    IN Let(DbGetBusiness(repo, db, businessId), After)

GetBusinessHandler(repo, db, businessId) ==
    LET After(o) ==
            LET calls == <<Call("getBusiness", <<businessId>>, o.result)>>
            IN CASE "thrown" \in DOMAIN o -> Rejected(o.db, o.thrown)
                 [] o.result.type = "record_not_found" ->
                      Handled(o.db,
                              WriteNotFoundError("Business with id " \o businessId
                                                 \o " not found"),
                              calls, <<>>)
                 [] o.result.type = "database_error" ->
                      Handled(o.db, WriteError("Database error happened"), calls,
                              <<LogLine("error", o.result.error)>>)
                 [] o.result.type = "success" ->
                      LET business == o.result.value
                      IN Handled(o.db,
                                 WriteJson(Spread([type |-> business.type], business.value)),
                                 calls, <<>>)
    IN Let(DbGetBusiness(repo, db, businessId), After)

\* thrown is the rejection of parseJson, which postReviewHandler does not catch
Thrown(db, error) == [db |-> db, thrown |-> error]

PostReviewHandler(repo, db, req, businessId, date, date2) ==
    LET Created(o) ==
            LET calls == <<Call("createReview", <<businessId, o.input>>, o.result)>>
            IN IF "thrown" \in DOMAIN o THEN Rejected(o.db, o.thrown)
               ELSE IF o.result.type = "database_error"
               THEN Handled(o.db, WriteError("Database error: " \o o.result.error),
                            calls, <<>>)
               ELSE Handled(o.db, Response(StatusCreated, "", ""), calls,
                            <<LogLine("info",
                                      "Created new review for business " \o businessId)>>)
        Valid(input) ==
            IF Len(input.text) < ReviewTextMin
            THEN Handled(db, WriteError("Review text is too short"), <<>>, <<>>)
            ELSE IF Len(input.text) > ReviewTextMax
            THEN Handled(db, WriteError("Review text is too long"), <<>>, <<>>)
            ELSE IF input.rating < 10 \/ input.rating > 50
            THEN Handled(db, WriteError("Rating is out of range"), <<>>, <<>>)
            ELSE IF input.rating % 10 # 0
            THEN Handled(db, WriteError("Rating must be an integer"), <<>>, <<>>)
            ELSE Let(Spread(DbCreateReview(repo, db, businessId, input, date, date2),
                            [input |-> input]),
                     Created)
        Parsed(parseResult) ==
            IF ~parseResult.success
            THEN Handled(db, WriteError("Invalid data format"), <<>>, <<>>)
            ELSE Valid(parseResult.data)
        Received(jsonData) ==
            IF ~jsonData.ok THEN Thrown(db, jsonData.error)
            ELSE Let(PostReviewJsonSafeParse(jsonData.value), Parsed)
    IN IF SafeParseInt(businessId) = Undefined
       THEN Handled(db, WriteError("Invalid business id provided"), <<>>, <<>>)
       ELSE Let(ParseJson(req), Received)

\* mainHandler(req, res); req.url is the path of the request
MainHandler(repo, db, req, date, date2) ==
    LET pathname == req.url
        noRoute == Handled(db,
                           WriteNotFoundError("No route for " \o req.method \o " " \o req.url),
                           <<>>, <<>>)
        Routed(parts) ==
            IF /\ req.method = "GET"
               /\ IsBusinessIdPath(parts)
               /\ GetPathParam(parts) # ""
            THEN GetBusinessHandler(repo, db, GetPathParam(parts))
            ELSE IF /\ req.method = "POST"
                    /\ IsBusinessReviewsPath(parts)
                    /\ parts[3] # ""
            THEN PostReviewHandler(repo, db, req, parts[3], date, date2)
            ELSE noRoute
    IN IF ~MatchesPath(pathname, "/business") THEN noRoute
       ELSE Let(Split(pathname), Routed)

\* a variant of the callback without the catch
ServerCallbackNoCatch(repo, db, req, date, date2) ==
    MainHandler(repo, db, req, date, date2)

\* the response of the request as mainHandler left it: a handler that
\* throws has written nothing
ResOf(h) == IF "res" \in DOMAIN h THEN h.res ELSE NewServerResponse

\* a variant of the callback that writes the 500 when mainHandler settles,
\* fulfilled or rejected, as .finally would
ServerCallbackFinally(repo, db, req, date, date2) ==
    LET Settled(h) ==
            Handled(h.db,
                    ResEnd(ResWriteHead(ResOf(h), StatusInternalError, "text/plain"),
                           "Internal server error"),
                    IF "calls" \in DOMAIN h THEN h.calls ELSE <<>>,
                    IF "thrown" \in DOMAIN h THEN <<LogLine("error", h.thrown)>>
                    ELSE h.logs)
    IN Let(MainHandler(repo, db, req, date, date2), Settled)

\* the callback of http.createServer: a rejection of mainHandler is logged
\* and answered 500 on the response of the request
ServerCallback(repo, db, req, date, date2) ==
    LET Settled(h) ==
            IF "thrown" \in DOMAIN h
            THEN Handled(h.db,
                         ResEnd(ResWriteHead(ResOf(h), StatusInternalError, "text/plain"),
                                "Internal server error"),
                         <<>>, <<LogLine("error", h.thrown)>>)
            ELSE h
    IN Let(MainHandler(repo, db, req, date, date2), Settled)

---------------------------------------------------------------------------
(* The revision of src/src/server.ts: its own createInMemDb, whose         *)
(* businesses are stored flat and whose reviews are counted only, the      *)
(* operations of core.Operations, and its startServer                      *)

ServerTsCreateOnlineBusiness(db, data) ==
    LET counter == db.businessIdCounter + 1
        business == [id |-> NatToString(counter),
                     name |-> data.name,
                     website |-> data.website,
                     email |-> data.email,
                     total_reviews |-> 0]
    IN Outcome([db EXCEPT !.businessIdCounter = counter,
                          !.businesses = Append(@, business)],
               Success(business))

ServerTsCreatePhysicalBusiness(db, data) ==
    LET counter == db.businessIdCounter + 1
        business == [id |-> NatToString(counter),
                     name |-> data.name,
                     address |-> data.address,
                     phone |-> data.phone,
                     email |-> data.email,
                     total_reviews |-> 0]
    IN Outcome([db EXCEPT !.businessIdCounter = counter,
                          !.businesses = Append(@, business)],
               Success(business))

ServerTsGetBusiness(db, id) ==
    LET Has(b) == b.id = id
        Found(i) ==
            IF i = 0 THEN Outcome(db, RecordNotFound)
            ELSE Outcome(db, Success(db.businesses[i]))
    IN Let(FindIndex(db.businesses, Has), Found)

ServerTsCreateReview(db, businessId, data) ==
    LET Has(b) == b.id = businessId
        newReview == [business_id |-> businessId,
                      username |-> data.username,
                      rating |-> data.rating,
                      text |-> data.text]
        Found(i) ==
            IF i = 0 THEN Outcome(db, DatabaseError("Business not found"))
            ELSE Outcome([db EXCEPT !.businesses[i].total_reviews = @ + 1,
                                    !.reviewsIdCounter = @ + 1,
                                    !.reviews = Append(@, newReview)],
                         Success(newReview))
    IN Let(FindIndex(db.businesses, Has), Found)

\* what an operation of core.Operations leaves behind: value is the
\* business or undefined, error the message of the Error returned
Operated(db, ok, value, calls, logs) ==
    [db |-> db, isError |-> ~ok, value |-> value, calls |-> calls, logs |-> logs]

\* Operations.getBusiness
OperationsGetBusiness(db, businessId) ==
    LET After(o) ==
            LET calls == <<Call("getBusiness", <<businessId>>, o.result)>>
            IN CASE o.result.type = "database_error" ->
                      Operated(o.db, FALSE, "Database error: " \o o.result.error, calls, <<>>)
                 [] o.result.type = "record_not_found" ->
                      Operated(o.db, FALSE, "Business not found", calls, <<>>)
                 [] o.result.type = "success" ->
                      Operated(o.db, TRUE, o.result.value, calls,
                               <<LogLine("info",
                                         "Retrieved business " \o o.result.value.name)>>)
    IN Let(ServerTsGetBusiness(db, businessId), After)

\* Operations.createReview
OperationsCreateReview(db, businessId, input) ==
    LET After(o) ==
            LET calls == <<Call("createReview", <<businessId, input>>, o.result)>>
            IN IF o.result.type = "database_error"
               THEN Operated(o.db, FALSE, "Database error: " \o o.result.error, calls, <<>>)
               ELSE Operated(o.db, TRUE, Undefined, calls,
                             <<LogLine("info",
                                       "Created new review for business " \o businessId)>>)
    IN IF Len(input.text) < ReviewTextMin
       THEN Operated(db, FALSE, "Review text is too short", <<>>, <<>>)
       ELSE IF Len(input.text) > ReviewTextMax
       THEN Operated(db, FALSE, "Review text is too long", <<>>, <<>>)
       ELSE IF input.rating < 10 \/ input.rating > 50
       THEN Operated(db, FALSE, "Rating is out of range", <<>>, <<>>)
       ELSE IF input.rating % 10 # 0
       THEN Operated(db, FALSE, "Rating must be an integer", <<>>, <<>>)
       ELSE Let(ServerTsCreateReview(db, businessId, input), After)

\* getBusinessHandler of src/src/server.ts
ServerTsGetBusinessHandler(db, businessId) ==
    LET After(result) ==
            IF result.isError
            THEN Handled(result.db, WriteNotFoundError(result.value), result.calls,
                         result.logs)
            ELSE Handled(result.db, WriteJson(result.value), result.calls, result.logs)
    IN Let(OperationsGetBusiness(db, businessId), After)

\* postReviewHandler of src/src/server.ts; JSON.stringify(undefined) is
\* undefined, and the response ends with no body
ServerTsPostReviewHandler(db, req, businessId) ==
    LET After(result) ==
            IF result.isError
            THEN Handled(result.db, WriteError(result.value), result.calls, result.logs)
            ELSE Handled(result.db, WriteJson(""), result.calls, result.logs)
        Parsed(parseResult) ==
            IF ~parseResult.success
            THEN Handled(db, WriteError("Invalid data"), <<>>, <<>>)
            ELSE Let(OperationsCreateReview(db, businessId, parseResult.data), After)
        Received(jsonData) ==
            IF ~jsonData.ok THEN Thrown(db, jsonData.error)
            ELSE Let(PostReviewJsonSafeParse(jsonData.value), Parsed)
    IN Let(ParseJson(req), Received)

\* const [, id, ,] = url.pathname.split('/'): the second part of the path
ServerTsReviewsPathId(parts) == parts[2]

\* mainHandler of src/src/server.ts
ServerTsMainHandler(db, req) ==
    LET pathname == req.url
        noRoute == Handled(db,
                           WriteNotFoundError("No route for " \o req.method \o " " \o req.url),
                           <<>>, <<>>)
        Routed(parts) ==
            IF req.method = "GET" /\ IsBusinessIdPath(parts)
            THEN ServerTsGetBusinessHandler(db, GetPathParam(parts))
            ELSE IF req.method = "POST" /\ IsBusinessReviewsPath(parts)
            THEN ServerTsPostReviewHandler(db, req, ServerTsReviewsPathId(parts))
            ELSE noRoute
    IN IF ~MatchesPath(pathname, "/business") THEN noRoute
       ELSE Let(Split(pathname), Routed)

\* the callback of http.createServer of src/src/server.ts
ServerTsCallback(db, req) ==
    LET Settled(h) ==
            IF "thrown" \in DOMAIN h
            THEN Handled(h.db,
                         Response(StatusInternalError, "text/plain", "Internal server error"),
                         <<>>, <<LogLine("error", h.thrown)>>)
            ELSE h
    IN Let(ServerTsMainHandler(db, req), Settled)

---------------------------------------------------------------------------
(* The state and the operations on it *)

Db == [businesses |-> businesses,
       businessIdCounter |-> businessIdCounter,
       reviews |-> reviews,
       reviewsIdCounter |-> reviewsIdCounter,
       businessCol |-> businessCol,
       now |-> now]

SetDb(db) ==
    /\ businesses' = db.businesses
    /\ businessIdCounter' = db.businessIdCounter
    /\ reviews' = db.reviews
    /\ reviewsIdCounter' = db.reviewsIdCounter
    /\ businessCol' = db.businessCol
    /\ now' = db.now

\* the closure of createInMemDb() as it returns
NewInMemDb == [businesses |-> <<>>, businessIdCounter |-> 0, reviews |-> <<>>]

\* the state after createInMemDb() or createMongoDbStore() on an empty
\* database, and startServer
Init ==
    /\ impl \in {"inmem", "mongo"}
    /\ businesses = <<>>
    /\ businessIdCounter = 0
    /\ reviews = <<>>
    /\ businessCol = <<>>
    /\ now = 0
    /\ running = TRUE
    /\ last = [kind |-> "none"]
    /\ created = <<>>
    /\ issued = <<>>
    /\ reviewsIdCounter = 0
    /\ peer = NewInMemDb
    /\ inflight = <<>>

\* history: each createReview call among calls that returned success, with
\* the business it named, the rating it carried and the clock once it returned
RECURSIVE Successes(_, _)
Successes(calls, clock) ==
    IF calls = <<>> THEN <<>>
    ELSE LET c == Head(calls)
         IN (IF c.op = "createReview" /\ c.result.type = "success"
             THEN <<[business_id |-> c.args[1], rating |-> c.args[2].rating,
                     date |-> clock]>>
             ELSE <<>>)
            \o Successes(Tail(calls), clock)

\* history: each create-business call among calls that returned success, with
\* the id it returned, its input and the operation (via) that made the call
RECURSIVE Creations(_, _)
Creations(calls, via) ==
    IF calls = <<>> THEN <<>>
    ELSE LET c == Head(calls)
         IN (IF /\ c.op \in {"createOnlineBusiness", "createPhysicalBusiness"}
                /\ c.result.type = "success"
             THEN <<[id |-> c.result.value.id,
                     type |-> IF c.op = "createOnlineBusiness" THEN "online"
                              ELSE "physical",
                     data |-> c.args[1],
                     via |-> via]>>
             ELSE <<>>)
            \o Creations(Tail(calls), via)

Record(calls, db, via) ==
    /\ created' = created \o Successes(calls, db.now)
    /\ issued' = issued \o Creations(calls, via)

\* a direct call of the repository, as the tests make them
RepoCall(op, args, outcome) ==
    \E o \in {outcome} :
    /\ SetDb(o.db)
    /\ last' = [kind |-> "repo", op |-> op, args |-> args, result |-> o.result]
    /\ Record(<<Call(op, args, o.result)>>, o.db, "repo")
    /\ UNCHANGED <<impl, running, peer, inflight>>

CreateOnlineBusinessCall(data, insertedId) ==
    RepoCall("createOnlineBusiness", <<data>>,
             DbCreateOnlineBusiness(impl, Db, data, insertedId))

CreatePhysicalBusinessCall(data, insertedId) ==
    RepoCall("createPhysicalBusiness", <<data>>,
             DbCreatePhysicalBusiness(impl, Db, data, insertedId))

GetBusinessCall(id) ==
    RepoCall("getBusiness", <<id>>, DbGetBusiness(impl, Db, id))

CreateReviewCall(businessId, data, date, date2) ==
    RepoCall("createReview", <<businessId, data>>,
             DbCreateReview(impl, Db, businessId, data, date, date2))

\* a call of createBusiness(input, db, log)
CreateBusinessCall(input, insertedId) ==
    \E d \in {CreateBusiness(impl, Db, input, insertedId)} :
       /\ SetDb(d.db)
       /\ last' = [kind |-> "createBusiness", input |-> input, result |-> d.result,
                   calls |-> d.calls, logs |-> d.logs]
       /\ Record(d.calls, d.db, "createBusiness")
       /\ UNCHANGED <<impl, running, peer, inflight>>

\* one HTTP request, served to its response by a live server; a rejection
\* that nothing catches ends the process
HttpRequest(req, date, date2) ==
    /\ running
    /\ \E h \in {ServerCallback(impl, Db, req, date, date2)} :
       /\ SetDb(h.db)
       /\ running' = ("res" \in DOMAIN h)
       /\ last' = IF "res" \in DOMAIN h
                  THEN [kind |-> "http", req |-> req, res |-> h.res,
                        calls |-> h.calls, logs |-> h.logs]
                  ELSE [kind |-> "crash", req |-> req]
       /\ Record(IF "res" \in DOMAIN h THEN h.calls ELSE <<>>, h.db, "http")
       /\ UNCHANGED <<impl, peer, inflight>>

\* the store as an operation finds it when the driver is about to raise
DbRaising(raised) == Spread(Db, [raises |-> raised])

\* a direct call of the repository during which the driver raises
RepoCallRaising(op, args, raised, outcome) ==
    \E o \in {outcome} :
    \E result \in {IF "thrown" \in DOMAIN o
                   THEN [type |-> "rejected", thrown |-> o.thrown]
                   ELSE o.result} :
    /\ SetDb(o.db)
    /\ last' = [kind |-> "repo", op |-> op, args |-> args, raises |-> raised,
                result |-> result]
    /\ Record(<<Call(op, args, result)>>, o.db, "repo")
    /\ UNCHANGED <<impl, running, peer, inflight>>

\* one HTTP request served while the driver raises
HttpRequestRaising(req, raised) ==
    /\ running
    /\ \E h \in {ServerCallback(impl, DbRaising(raised), req, now, now)} :
       /\ SetDb(h.db)
       /\ running' = ("res" \in DOMAIN h)
       /\ last' = IF "res" \in DOMAIN h
                  THEN [kind |-> "http", req |-> req, raises |-> raised, res |-> h.res,
                        calls |-> h.calls, logs |-> h.logs]
                  ELSE [kind |-> "crash", req |-> req, raises |-> raised]
       /\ Record(IF "res" \in DOMAIN h THEN h.calls ELSE <<>>, h.db, "http")
       /\ UNCHANGED <<impl, peer, inflight>>

\* the second store as its operations see it
PeerDb == [businesses |-> peer.businesses,
           businessIdCounter |-> peer.businessIdCounter,
           reviews |-> peer.reviews,
           now |-> now]

\* a direct call of the second store
PeerCall(op, args, outcome) ==
    \E o \in {outcome} :
    /\ peer' = [businesses |-> o.db.businesses,
                businessIdCounter |-> o.db.businessIdCounter,
                reviews |-> o.db.reviews]
    /\ now' = o.db.now
    /\ last' = [kind |-> "peer", op |-> op, args |-> args, result |-> o.result]
    /\ UNCHANGED <<impl, businesses, businessIdCounter, reviews, reviewsIdCounter,
                   businessCol, running, created, issued, inflight>>

\* createBusinessInput.safeParse(json), and createBusiness on what it yields
CreateBusinessParsedCall(json, insertedId) ==
    \E parsed \in {CreateBusinessInputSafeParse(json)} :
       IF parsed.success
       THEN \E d \in {CreateBusiness(impl, Db, parsed.data, insertedId)} :
               /\ SetDb(d.db)
               /\ last' = [kind |-> "createBusiness", json |-> json, parsed |-> parsed,
                           input |-> parsed.data, result |-> d.result,
                           calls |-> d.calls, logs |-> d.logs]
               /\ Record(d.calls, d.db, "createBusiness")
               /\ UNCHANGED <<impl, running, peer, inflight>>
       ELSE /\ last' = [kind |-> "refused", json |-> json, parsed |-> parsed]
            /\ UNCHANGED <<impl, businesses, businessIdCounter, reviews, reviewsIdCounter,
                           businessCol, now, running, created, issued, peer, inflight>>

\* inflight without its k-th operation
Without(seq, k) == SubSeq(seq, 1, k - 1) \o SubSeq(seq, k + 1, Len(seq))

\* createReview of the document store is called and runs to the await of
\* findOne; it returns at once where it has no document to go on with
BeginCreateReview(businessId, data, date) ==
    \E o \in {MongoCreateReviewFindOne(Db, businessId, data, date)} :
       /\ SetDb(o.db)
       /\ IF "pending" \in DOMAIN o
          THEN /\ inflight' = Append(inflight, o.pending)
               /\ last' = [kind |-> "begun", op |-> "createReview",
                           args |-> <<businessId, data>>]
               /\ UNCHANGED <<created, issued>>
          ELSE /\ inflight' = inflight
               /\ last' = [kind |-> "repo", op |-> "createReview",
                           args |-> <<businessId, data>>, result |-> o.result]
               /\ Record(<<Call("createReview", <<businessId, data>>, o.result)>>,
                         o.db, "repo")
       /\ UNCHANGED <<impl, running, peer>>

\* a waiting createReview goes on after findOne: replaceOne, and its return
FinishCreateReview(k, date2) ==
    \E held \in {inflight[k]} :
    \E o \in {MongoCreateReviewReplaceOne(Db, held, date2)} :
       /\ SetDb(o.db)
       /\ inflight' = Without(inflight, k)
       /\ last' = [kind |-> "repo", op |-> "createReview",
                   args |-> <<held.businessId, held.data>>, result |-> o.result,
                   held |-> held]
       /\ Record(<<Call("createReview", <<held.businessId, held.data>>, o.result)>>,
                 o.db, "repo")
       /\ UNCHANGED <<impl, running, peer>>

\* the handler of a request reaches 'await parseJson(req)': the route is
\* POST /business/:id/reviews and safeParseInt takes the id
AwaitsParseJson(req) ==
    /\ MatchesPath(req.url, "/business")
    /\ req.method = "POST"
    /\ IsBusinessReviewsPath(Split(req.url))
    /\ Split(req.url)[3] # ""
    /\ SafeParseInt(Split(req.url)[3]) # Undefined

\* a request handled with other requests in flight and its answer
Answered(req, h) ==
    [kind |-> "http", req |-> req, res |-> h.res, calls |-> h.calls, logs |-> h.logs]

\* a request arrives: the callback of the server runs mainHandler up to its
\* first await.  With the in-memory store an operation of the repository
\* runs to its end when it is called, and its caller waits for the promise
\* it returned.
AcceptRequest(req) ==
    /\ running
    /\ IF AwaitsParseJson(req)
       THEN /\ inflight' = Append(inflight, [req |-> req, at |-> "parseJson"])
            /\ last' = [kind |-> "accepted", req |-> req]
            /\ UNCHANGED <<businesses, businessIdCounter, reviews, reviewsIdCounter,
                           businessCol, now, created, issued>>
       ELSE \E h \in {ServerCallback(impl, Db, req, now, now)} :
               /\ SetDb(h.db)
               /\ Record(h.calls, h.db, "http")
               /\ IF h.calls = <<>>
                  THEN /\ inflight' = inflight
                       /\ last' = Answered(req, h)
                  ELSE /\ inflight' = Append(inflight,
                                             [req |-> req, at |-> "getBusiness", h |-> h])
                       /\ last' = [kind |-> "accepted", req |-> req]
    /\ UNCHANGED <<impl, running, peer>>

\* 'end' of the body of a waiting request: parseJson settles and
\* postReviewHandler goes on, to its answer or to the await of createReview
EndOfBody(k, date) ==
    /\ inflight[k].at = "parseJson"
    /\ \E h \in {ServerCallback(impl, Db, inflight[k].req, date, date)} :
          /\ SetDb(h.db)
          /\ Record(h.calls, h.db, "http")
          /\ IF h.calls = <<>>
             THEN /\ inflight' = Without(inflight, k)
                  /\ last' = Answered(inflight[k].req, h)
             ELSE /\ inflight' = [inflight EXCEPT ![k] = [req |-> inflight[k].req,
                                                          at |-> "createReview",
                                                          h |-> h]]
                  /\ last' = [kind |-> "resumed", req |-> inflight[k].req]
    /\ UNCHANGED <<impl, running, peer>>

\* what getBusinessHandler writes once it goes on: result.value.value is
\* the stored business itself, read when the answer is written
GetBusinessAnswer(db, h) ==
    LET result == h.calls[1].result
        Has(b) == b.value.id = h.calls[1].args[1]
    IN IF result.type = "success"
       THEN [h EXCEPT !.res = WriteJson(Spread([type |-> result.value.type],
                                               db.businesses[FindIndex(db.businesses, Has)]
                                                   .value))]
       ELSE h

\* a handler waiting for the promise of a repository operation goes on and
\* writes its answer
Respond(k) ==
    /\ inflight[k].at \in {"getBusiness", "createReview"}
    /\ inflight' = Without(inflight, k)
    /\ last' = Answered(inflight[k].req,
                        IF inflight[k].at = "getBusiness"
                        THEN GetBusinessAnswer(Db, inflight[k].h)
                        ELSE inflight[k].h)
    /\ UNCHANGED <<impl, businesses, businessIdCounter, reviews, reviewsIdCounter,
                   businessCol, now, running, created, issued, peer>>

\* one HTTP request served by the server of src/src/server.ts
ServerTsHttpRequest(req) ==
    /\ running
    /\ \E h \in {ServerTsCallback(Db, req)} :
       /\ SetDb(h.db)
       /\ last' = [kind |-> "http", req |-> req, res |-> h.res,
                   calls |-> h.calls, logs |-> h.logs]
       /\ Record(h.calls, h.db, "http")
       /\ UNCHANGED <<impl, running, peer, inflight>>

\* parseJson(req) called on a request whose body has been received to its
\* 'end'
ParseJsonCall(req) ==
    /\ last' = [kind |-> "parseJson", req |-> req, result |-> ParseJson(req)]
    /\ UNCHANGED <<impl, businesses, businessIdCounter, reviews, reviewsIdCounter,
                   businessCol, now, running, created, issued, peer, inflight>>

---------------------------------------------------------------------------
(* Inputs *)

TestOnline == [name |-> "test", website |-> "test.com", email |-> "test@test.com"]
TestPhysical == [name |-> "test", address |-> "123 test st", phone |-> "1234567890",
                 email |-> "test@test.com"]
TestReviewText ==
    "super amazing business review that will get to more than 20 characters long"

\* the k-th ObjectId the driver generates, with its leading digit
Oid(lead, k) == lead \o Repeat("0", ObjectIdHexLen - 2) \o NatToString(k)

\* the ids insertOne may generate next (createInMemDb generates none)
FreshIds ==
    IF impl = "inmem" THEN {""}
    ELSE {Oid(lead, Len(businessCol) + 1) : lead \in {"6", "f"}}

BusinessCount == Len(businesses) + Len(businessCol)
ReviewCount == Len(created)

\* the readings of the clock a createReview may see: time stands or moves on
Readings ==
    {dd \in (now..(now + 1)) \X (now..(now + 2)) :
        /\ dd[2] \in dd[1]..(dd[1] + 1)
        /\ dd[2] <= MaxClock
        /\ impl = "inmem" => dd[2] = dd[1]}

Request(method, url, chunks) == [method |-> method, url |-> url, chunks |-> chunks]
GetBusinessRequest(id) == Request("GET", "/business/" \o id, <<>>)
ReviewJson(text, rating) ==
    Stringify([text |-> JStr(text), rating |-> JNum(rating), username |-> JStr("test user")])
PostReviewRequest(id, body) == Request("POST", "/business/" \o id \o "/reviews", <<body>>)

\* a record of strings as the members of a JSON object
JStrings(rec) == [k \in DOMAIN rec |-> JStr(rec[k])]

\* the body a client of a create-business route would send
BusinessJson(input) ==
    Stringify([type |-> JStr(input.type), value |-> JObj(JStrings(input.value))])
PostBusinessRequest(input) == Request("POST", "/business", <<BusinessJson(input)>>)

---------------------------------------------------------------------------
(* Spec: one business of the tests' data and its review history, over HTTP *)

MaxHistoryBusinesses == 1

HistoryIds == {"1", Oid("6", 1), Oid("f", 1)}
HistoryRatings == {40, 50}
HistoryGets == {GetBusinessRequest(id) : id \in HistoryIds}
HistoryPosts ==
    {PostReviewRequest(id, ReviewJson(TestReviewText, rating)) :
        id \in HistoryIds, rating \in HistoryRatings}

NextHistory ==
    \/ /\ BusinessCount < MaxHistoryBusinesses
       /\ \E insertedId \in FreshIds :
            \/ CreateOnlineBusinessCall(TestOnline, insertedId)
            \/ CreatePhysicalBusinessCall(TestPhysical, insertedId)
    \/ \E req \in HistoryGets : HttpRequest(req, now, now)
    \/ /\ ReviewCount < MaxReviews
       /\ \E req \in HistoryPosts, dd \in Readings : HttpRequest(req, dd[1], dd[2])

Spec == Init /\ [][NextHistory]_vars

---------------------------------------------------------------------------
(* SpecBusiness: businesses created through createBusiness and through the *)
(* repository, with names around the two limits, and read back             *)

BusinessNames == {"test"} \cup {Repeat("a", n) : n \in {50, 51, 75, 76}}

CreateBusinessInputs ==
    {[type |-> "online", value |-> [TestOnline EXCEPT !.name = n]] : n \in BusinessNames}
    \cup {[type |-> "physical", value |-> [TestPhysical EXCEPT !.name = n]] :
              n \in BusinessNames}

\* the repository takes any name
DirectPhysical == {TestPhysical, [TestPhysical EXCEPT !.name = Repeat("a", 51)]}

\* ids issued, never issued, not of the form of the store's ids, and an
\* issued object id in upper case
RoutedIds ==
    {"1", "2", "3", "1a", Oid("6", 1), Oid("f", 2), Oid("F", 2), Oid("6", 3)}
AnyIds == RoutedIds \cup {"", "x-1"}

BusinessGets == {GetBusinessRequest(id) : id \in RoutedIds \cup {"x-1"}}
BusinessPosts ==
    {PostBusinessRequest([type |-> "online", value |-> TestOnline]),
     PostBusinessRequest([type |-> "physical", value |-> TestPhysical])}

NextBusiness ==
    \/ /\ BusinessCount < MaxBusinesses
       /\ \E input \in CreateBusinessInputs, insertedId \in FreshIds :
              CreateBusinessCall(input, insertedId)
    \/ /\ BusinessCount < MaxBusinesses
       /\ \E insertedId \in FreshIds :
            \/ CreateOnlineBusinessCall(TestOnline, insertedId)
            \/ \E data \in DirectPhysical : CreatePhysicalBusinessCall(data, insertedId)
    \/ \E id \in AnyIds : GetBusinessCall(id)
    \/ \E req \in BusinessGets \cup BusinessPosts : HttpRequest(req, now, now)

SpecBusiness == Init /\ [][NextBusiness]_vars

---------------------------------------------------------------------------
(* SpecValidation: one business and the review requests around every rule  *)
(* of postReviewHandler, with the clock standing                           *)

MaxValidationBusinesses == 1
MaxValidationReviews == 2

ShortReviewText == "test review"

ValidationIds == {"1", "999", Oid("6", 1), Oid("f", 1), Oid("6", 9)}

ReviewBodies ==
    {ReviewJson(Repeat("t", n), 50) : n \in {19, 20, 500, 501}}
    \cup {ReviewJson(TestReviewText, rating) : rating \in {0, 10, 50, 55, 60}}
    \cup {\* keys the schema does not name, as the tests send them
          Stringify([business_id |-> JStr("1"), text |-> JStr(TestReviewText),
                     rating |-> JNum(50), username |-> JStr("test user"),
                     creation_date |-> JStr("2023-01-01T00:00:00.000Z")]),
          \* not of the schema
          Stringify([text |-> JStr(TestReviewText), username |-> JStr("test user")]),
          Stringify([text |-> JStr(TestReviewText), rating |-> JStr("5"),
                     username |-> JStr("test user")]),
          \* not JSON
          <<OpenBrace>>}

ValidationGets == {GetBusinessRequest(id) : id \in ValidationIds}
ValidationPosts ==
    {PostReviewRequest(id, body) : id \in ValidationIds, body \in ReviewBodies}
    \cup {Request("POST", "/business/" \o id \o "/reviews", <<>>) : id \in {"1", "999"}}

DirectReviews ==
    {[text |-> ShortReviewText, rating |-> 50, username |-> "test user"]}

NextValidation ==
    \/ /\ BusinessCount < MaxValidationBusinesses
       /\ \E insertedId \in FreshIds :
            \/ CreateOnlineBusinessCall(TestOnline, insertedId)
            \/ CreatePhysicalBusinessCall(TestPhysical, insertedId)
    \/ \E req \in ValidationGets : HttpRequest(req, now, now)
    \/ /\ ReviewCount < MaxValidationReviews
       /\ \E req \in ValidationPosts : HttpRequest(req, now, now)
    \/ /\ ReviewCount < MaxValidationReviews
       /\ \E id \in ValidationIds, data \in DirectReviews :
              CreateReviewCall(id, data, now, now)

SpecValidation == Init /\ [][NextValidation]_vars

---------------------------------------------------------------------------
(* SpecPair: the same series of repository calls applied to an in-memory   *)
(* store and to a document store side by side, as the store test applies   *)
(* them; the k-th business of one is the k-th business of the other        *)

MaxPairBusinesses == 1
MaxPairReviews == 3

InitPair ==
    /\ impl = "pair"
    /\ businesses = <<>>
    /\ businessIdCounter = 0
    /\ reviews = <<>>
    /\ businessCol = <<>>
    /\ now = 0
    /\ running = TRUE
    /\ last = [kind |-> "none"]
    /\ created = <<>>
    /\ issued = <<>>
    /\ reviewsIdCounter = 0
    /\ peer = NewInMemDb
    /\ inflight = <<>>

\* the id of the k-th business in each store, issued or still to be issued
InMemId(k) == NatToString(k)
MongoId(k) == IF k <= Len(businessCol) THEN businessCol[k]._id ELSE Oid("6", k)

\* one call made on both stores: a on the in-memory store, then b on the
\* document store
PairCall(op, inMemArgs, mongoArgs, a, b) ==
    /\ SetDb(b.db)
    /\ last' = [kind |-> "pair", op |-> op,
                inmem |-> Call(op, inMemArgs, a.result),
                mongo |-> Call(op, mongoArgs, b.result)]
    /\ Record(<<Call(op, inMemArgs, a.result), Call(op, mongoArgs, b.result)>>,
              b.db, "repo")
    /\ UNCHANGED <<impl, running, peer, inflight>>

PairCreateOnlineBusiness(data) ==
    \E a \in {DbCreateOnlineBusiness("inmem", Db, data, "")} :
    \E b \in {DbCreateOnlineBusiness("mongo", a.db, data, MongoId(Len(businessCol) + 1))} :
        PairCall("createOnlineBusiness", <<data>>, <<data>>, a, b)

PairCreatePhysicalBusiness(data) ==
    \E a \in {DbCreatePhysicalBusiness("inmem", Db, data, "")} :
    \E b \in {DbCreatePhysicalBusiness("mongo", a.db, data, MongoId(Len(businessCol) + 1))} :
        PairCall("createPhysicalBusiness", <<data>>, <<data>>, a, b)

PairGetBusiness(k) ==
    \E a \in {DbGetBusiness("inmem", Db, InMemId(k))} :
    \E b \in {DbGetBusiness("mongo", a.db, MongoId(k))} :
        PairCall("getBusiness", <<InMemId(k)>>, <<MongoId(k)>>, a, b)

PairCreateReview(k, data, date) ==
    \E a \in {DbCreateReview("inmem", Db, InMemId(k), data, date, date)} :
    \E b \in {DbCreateReview("mongo", a.db, MongoId(k), data, date, date)} :
        PairCall("createReview", <<InMemId(k), data>>, <<MongoId(k), data>>, a, b)

\* the repository is handed any name, any text and any rating
PairOnline == {TestOnline, [TestOnline EXCEPT !.name = Repeat("a", 76)]}
PairPhysical == {TestPhysical, [TestPhysical EXCEPT !.name = Repeat("a", 51)]}
PairReviews ==
    {[text |-> ShortReviewText, rating |-> rating, username |-> "test user"] :
        rating \in {30, 50}}
    \cup {[text |-> "", rating |-> 75, username |-> "test user"]}

NextPair ==
    \/ /\ Len(businesses) < MaxPairBusinesses
       /\ \/ \E data \in PairOnline : PairCreateOnlineBusiness(data)
          \/ \E data \in PairPhysical : PairCreatePhysicalBusiness(data)
    \/ \E k \in 1..(Len(businesses) + 1) : PairGetBusiness(k)
    \/ /\ Len(reviews) < MaxPairReviews
       /\ \E k \in 1..(Len(businesses) + 1), data \in PairReviews,
             date \in now..(IF now < MaxClock THEN now + 1 ELSE now) :
              PairCreateReview(k, data, date)

SpecPair == InitPair /\ [][NextPair]_vars

---------------------------------------------------------------------------
(* SpecFaults: one business, and requests and repository calls during     *)
(* which the driver of the document store raises                          *)

MaxFaultBusinesses == 1
MaxFaultReviews == 1

Raised ==
    {ErrorRaised("connection lost"), ErrorRaised("socket timeout"),
     OtherRaised("not an Error")}

FaultIds == {"1", "999", Oid("6", 1), Oid("f", 1)}

FaultRequests ==
    {GetBusinessRequest(id) : id \in FaultIds}
    \cup {PostReviewRequest(id, body) :
              id \in FaultIds,
              body \in {ReviewJson(TestReviewText, 50), ReviewJson(ShortReviewText, 50),
                        <<OpenBrace>>}}

NextFaults ==
    \/ /\ BusinessCount < MaxFaultBusinesses
       /\ \E insertedId \in FreshIds :
            \/ CreateOnlineBusinessCall(TestOnline, insertedId)
            \/ CreatePhysicalBusinessCall(TestPhysical, insertedId)
    \/ /\ ReviewCount < MaxFaultReviews
       /\ \E req \in FaultRequests : HttpRequest(req, now, now)
    \/ /\ ReviewCount < MaxFaultReviews
       /\ \E req \in FaultRequests, raised \in Raised : HttpRequestRaising(req, raised)
    \/ /\ impl = "mongo"
       /\ \E raised \in Raised :
            \/ \E insertedId \in FreshIds :
                  RepoCallRaising("createOnlineBusiness", <<TestOnline>>, raised,
                                  DbCreateOnlineBusiness(impl, DbRaising(raised),
                                                         TestOnline, insertedId))
            \/ \E insertedId \in FreshIds :
                  RepoCallRaising("createPhysicalBusiness", <<TestPhysical>>, raised,
                                  DbCreatePhysicalBusiness(impl, DbRaising(raised),
                                                           TestPhysical, insertedId))
            \/ \E id \in FaultIds :
                  RepoCallRaising("getBusiness", <<id>>, raised,
                                  DbGetBusiness(impl, DbRaising(raised), id))
            \/ \E id \in FaultIds, data \in DirectReviews :
                  RepoCallRaising("createReview", <<id, data>>, raised,
                                  DbCreateReview(impl, DbRaising(raised), id, data,
                                                 now, now))

SpecFaults == Init /\ [][NextFaults]_vars

---------------------------------------------------------------------------
(* SpecRouting: every method on paths at and around the two routes *)

MaxRoutingBusinesses == 1
MaxRoutingReviews == 1

RoutingMethods == {"GET", "POST", "PUT", "DELETE"}
RoutingUrls ==
    {"/", "/business", "/business/", "/business/1", "/business/1/reviews",
     "/business/1/reviews/", "/business/a-b", "/business/1/2",
     "/reviews/1/business", "/business/x/business/1", "/businesses/business/1",
     "/business/x/business/1/reviews", "/business/" \o Oid("6", 1)}
RoutingRequests ==
    {Request(method, url, <<ReviewJson(TestReviewText, 50)>>) :
        method \in RoutingMethods, url \in RoutingUrls}

NextRouting ==
    \/ /\ BusinessCount < MaxRoutingBusinesses
       /\ \E insertedId \in FreshIds :
            \/ CreateOnlineBusinessCall(TestOnline, insertedId)
            \/ CreatePhysicalBusinessCall(TestPhysical, insertedId)
    \/ /\ ReviewCount < MaxRoutingReviews
       /\ \E req \in RoutingRequests : HttpRequest(req, now, now)

SpecRouting == Init /\ [][NextRouting]_vars

---------------------------------------------------------------------------
(* SpecReading: one business read between the reviews posted to it, the    *)
(* clock standing or moving between two reviews                            *)

MaxReadBusinesses == 1
MaxReadReviews == 3

ReadIds == {"1", Oid("6", 1)}
ReadGets == {GetBusinessRequest(id) : id \in ReadIds}
ReadPosts ==
    {PostReviewRequest(id, ReviewJson(TestReviewText, rating)) :
        id \in ReadIds, rating \in {40, 50}}

NextReading ==
    \/ /\ BusinessCount < MaxReadBusinesses
       /\ \E insertedId \in FreshIds :
            \/ CreateOnlineBusinessCall(TestOnline, insertedId)
            \/ CreatePhysicalBusinessCall(TestPhysical, insertedId)
    \/ \E req \in ReadGets : HttpRequest(req, now, now)
    \/ /\ ReviewCount < MaxReadReviews
       /\ \E req \in ReadPosts, dd \in Readings : HttpRequest(req, dd[1], dd[2])

SpecReading == Init /\ [][NextReading]_vars

---------------------------------------------------------------------------
(* SpecInstances: two in-memory stores, each from its own call of          *)
(* createInMemDb(), called directly                                        *)

MaxInstanceBusinesses == 2
MaxInstanceReviews == 1

InitInstances ==
    /\ impl = "inmem"
    /\ businesses = <<>>
    /\ businessIdCounter = 0
    /\ reviews = <<>>
    /\ businessCol = <<>>
    /\ now = 0
    /\ running = TRUE
    /\ last = [kind |-> "none"]
    /\ created = <<>>
    /\ issued = <<>>
    /\ reviewsIdCounter = 0
    /\ peer = NewInMemDb
    /\ inflight = <<>>

InstanceIds == {"1", "2", "3"}
InstanceOnline == {TestOnline, [TestOnline EXCEPT !.name = "other"]}

NextInstances ==
    \/ /\ Len(businesses) < MaxInstanceBusinesses
       /\ \/ \E data \in InstanceOnline : CreateOnlineBusinessCall(data, "")
          \/ CreatePhysicalBusinessCall(TestPhysical, "")
    \/ \E id \in InstanceIds : GetBusinessCall(id)
    \/ /\ Len(reviews) + Len(peer.reviews) < MaxInstanceReviews
       /\ \E id \in InstanceIds, data \in DirectReviews :
              CreateReviewCall(id, data, now, now)
    \/ /\ Len(peer.businesses) < MaxInstanceBusinesses
       /\ \/ \E data \in InstanceOnline :
                PeerCall("createOnlineBusiness", <<data>>,
                         InMemCreateOnlineBusiness(PeerDb, data))
          \/ PeerCall("createPhysicalBusiness", <<TestPhysical>>,
                      InMemCreatePhysicalBusiness(PeerDb, TestPhysical))
    \/ \E id \in InstanceIds :
          PeerCall("getBusiness", <<id>>, InMemGetBusiness(PeerDb, id))
    \/ /\ Len(reviews) + Len(peer.reviews) < MaxInstanceReviews
       /\ \E id \in InstanceIds, data \in DirectReviews :
              PeerCall("createReview", <<id, data>>,
                       InMemCreateReview(PeerDb, id, data, now))

SpecInstances == InitInstances /\ [][NextInstances]_vars

---------------------------------------------------------------------------
(* SpecNaming: businesses created from JSON inputs through the schema and  *)
(* createBusiness, with names of every length from none                    *)

MaxNamingBusinesses == 2

NamingNames == {"", "a", "test", Repeat("a", 50), Repeat("a", 51)}

NamingJson ==
    {JObj([type |-> JStr("online"),
           value |-> JObj(JStrings([TestOnline EXCEPT !.name = n]))]) :
        n \in NamingNames}
    \cup {JObj([type |-> JStr("physical"),
                value |-> JObj(JStrings([TestPhysical EXCEPT !.name = n]))]) :
             n \in NamingNames}
    \cup {\* no name, a name that is a number, another type
          JObj([type |-> JStr("online"),
                value |-> JObj([website |-> JStr("test.com"),
                                email |-> JStr("test@test.com")])]),
          JObj([type |-> JStr("online"),
                value |-> JObj([name |-> JNum(10), website |-> JStr("test.com"),
                                email |-> JStr("test@test.com")])]),
          JObj([type |-> JStr("other"), value |-> JObj(JStrings(TestOnline))])}

NextNaming ==
    \/ /\ BusinessCount < MaxNamingBusinesses
       /\ \E json \in NamingJson, insertedId \in FreshIds :
              CreateBusinessParsedCall(json, insertedId)
    \/ \E id \in {"1", "2", Oid("6", 1), Oid("f", 2)} : GetBusinessCall(id)

SpecNaming == Init /\ [][NextNaming]_vars

---------------------------------------------------------------------------
(* SpecRace: createReview calls on a document store, one begun while       *)
(* another waits between its findOne and its replaceOne                    *)

MaxRaceBusinesses == 1
MaxRaceReviews == 3
MaxRaceInflight == 2

InitRace ==
    /\ impl = "mongo"
    /\ businesses = <<>>
    /\ businessIdCounter = 0
    /\ reviews = <<>>
    /\ businessCol = <<>>
    /\ now = 0
    /\ running = TRUE
    /\ last = [kind |-> "none"]
    /\ created = <<>>
    /\ issued = <<>>
    /\ reviewsIdCounter = 0
    /\ peer = NewInMemDb
    /\ inflight = <<>>

RaceIds == {Oid("6", 1), Oid("6", 2), "1"}
RaceReviews ==
    {[text |-> ShortReviewText, rating |-> rating, username |-> "test user"] :
        rating \in {30, 50}}

\* the clock stands or has moved on by one
Clock == {date \in now..(now + 1) : date <= MaxClock}

NextRace ==
    \/ /\ BusinessCount < MaxRaceBusinesses
       /\ \E insertedId \in {Oid("6", Len(businessCol) + 1)} :
            \/ CreateOnlineBusinessCall(TestOnline, insertedId)
            \/ CreatePhysicalBusinessCall(TestPhysical, insertedId)
    \/ \E id \in RaceIds : GetBusinessCall(id)
    \/ /\ Len(created) + Len(inflight) < MaxRaceReviews
       /\ Len(inflight) < MaxRaceInflight
       /\ \E id \in RaceIds, data \in RaceReviews, date \in Clock :
              BeginCreateReview(id, data, date)
    \/ \E k \in 1..Len(inflight), date2 \in Clock : FinishCreateReview(k, date2)

SpecRace == InitRace /\ [][NextRace]_vars

---------------------------------------------------------------------------
(* SpecInterleaved: requests served by one server over the in-memory store, *)
(* each handler running from await to await among the others               *)

MaxInterleavedBusinesses == 1
MaxInterleavedReviews == 4
MaxInterleavedInflight == 2

InitInterleaved ==
    /\ impl = "inmem"
    /\ businesses = <<>>
    /\ businessIdCounter = 0
    /\ reviews = <<>>
    /\ businessCol = <<>>
    /\ now = 0
    /\ running = TRUE
    /\ last = [kind |-> "none"]
    /\ created = <<>>
    /\ issued = <<>>
    /\ reviewsIdCounter = 0
    /\ peer = NewInMemDb
    /\ inflight = <<>>

InterleavedRequests ==
    {GetBusinessRequest("1"), GetBusinessRequest("x-1"),
     PostReviewRequest("1", ReviewJson(TestReviewText, 40)),
     PostReviewRequest("1", ReviewJson(TestReviewText, 50)),
     PostReviewRequest("1", ReviewJson(ShortReviewText, 50)),
     PostReviewRequest("999", ReviewJson(TestReviewText, 50)),
     PostReviewRequest("x", ReviewJson(TestReviewText, 50)),
     PostReviewRequest("1", <<OpenBrace>>)}

\* the requests in flight that may still create a review
MayCreate == SelectSeq(inflight, LAMBDA p : p.at = "parseJson")

NextInterleaved ==
    \/ /\ BusinessCount < MaxInterleavedBusinesses
       /\ \/ CreateOnlineBusinessCall(TestOnline, "")
          \/ CreatePhysicalBusinessCall(TestPhysical, "")
    \/ /\ Len(inflight) < MaxInterleavedInflight
       /\ Len(created) + Len(MayCreate) < MaxInterleavedReviews
       /\ \E req \in InterleavedRequests : AcceptRequest(req)
    \/ \E k \in 1..Len(inflight), date \in Clock : EndOfBody(k, date)
    \/ \E k \in 1..Len(inflight) : Respond(k)

SpecInterleaved == InitInterleaved /\ [][NextInterleaved]_vars

---------------------------------------------------------------------------
(* SpecServerTs: the server of src/src/server.ts over its own in-memory    *)
(* store, as its integration test drives it                                *)

MaxServerTsBusinesses == 2
MaxServerTsReviews == 2

InitServerTs ==
    /\ impl = "server.ts"
    /\ businesses = <<>>
    /\ businessIdCounter = 0
    /\ reviews = <<>>
    /\ businessCol = <<>>
    /\ now = 0
    /\ running = TRUE
    /\ last = [kind |-> "none"]
    /\ created = <<>>
    /\ issued = <<>>
    /\ reviewsIdCounter = 0
    /\ peer = NewInMemDb
    /\ inflight = <<>>

ServerTsIds == {"1", "2", "business"}

ServerTsRequests ==
    {GetBusinessRequest(id) : id \in ServerTsIds}
    \cup {PostReviewRequest(id, body) :
              id \in ServerTsIds,
              body \in {ReviewJson(TestReviewText, 40), ReviewJson(TestReviewText, 50),
                        ReviewJson(ShortReviewText, 50), <<OpenBrace>>}}

NextServerTs ==
    \/ /\ Len(businesses) < MaxServerTsBusinesses
       /\ \/ RepoCall("createOnlineBusiness", <<TestOnline>>,
                      ServerTsCreateOnlineBusiness(Db, TestOnline))
          \/ RepoCall("createPhysicalBusiness", <<TestPhysical>>,
                      ServerTsCreatePhysicalBusiness(Db, TestPhysical))
    \/ \E id \in ServerTsIds : RepoCall("getBusiness", <<id>>, ServerTsGetBusiness(Db, id))
    \/ /\ Len(reviews) < MaxServerTsReviews
       /\ \E id \in ServerTsIds, data \in DirectReviews :
              RepoCall("createReview", <<id, data>>, ServerTsCreateReview(Db, id, data))
    \/ /\ Len(reviews) < MaxServerTsReviews
       /\ \E req \in ServerTsRequests : ServerTsHttpRequest(req)

SpecServerTs == InitServerTs /\ [][NextServerTs]_vars

---------------------------------------------------------------------------
(* SpecResponses: requests down every path of mainHandler, of the two      *)
(* handlers and of the catch of the callback, the driver raising or not    *)

MaxResponseBusinesses == 1
MaxResponseReviews == 1

ResponseRequests ==
    FaultRequests
    \cup {Request(method, url, <<ReviewJson(TestReviewText, 50)>>) :
              method \in {"GET", "POST", "PUT"},
              url \in {"/", "/business", "/business/", "/business/1/reviews/",
                       "/business/a-b", "/reviews/1/business"}}
    \cup {PostReviewRequest(id, body) :
              id \in {"1", Oid("6", 1), "x"},
              body \in {ReviewJson(Repeat("t", 501), 50), ReviewJson(TestReviewText, 0),
                        ReviewJson(TestReviewText, 55),
                        Stringify([text |-> JStr(TestReviewText),
                                   username |-> JStr("test user")])}}
    \cup {Request("POST", "/business/1/reviews", <<>>)}

NextResponses ==
    \/ /\ BusinessCount < MaxResponseBusinesses
       /\ \E insertedId \in FreshIds :
            \/ CreateOnlineBusinessCall(TestOnline, insertedId)
            \/ CreatePhysicalBusinessCall(TestPhysical, insertedId)
    \/ /\ ReviewCount < MaxResponseReviews
       /\ \E req \in ResponseRequests : HttpRequest(req, now, now)
    \/ /\ ReviewCount < MaxResponseReviews
       /\ \E req \in ResponseRequests, raised \in Raised : HttpRequestRaising(req, raised)

SpecResponses == Init /\ [][NextResponses]_vars

---------------------------------------------------------------------------
(* SpecChunks: request bodies that arrive in one 'data' event or in        *)
(* several                                                                 *)

MaxChunkBusinesses == 1
MaxChunkReviews == 2
MaxChunks == 3

\* the ways a body arrives: whole, or cut into two or three chunks
Deliveries(text) ==
    {<<text>>}
    \cup {<<SubSeq(text, 1, k), SubSeq(text, k + 1, Len(text))>> :
              k \in 1..(Len(text) - 1)}
    \cup {<<SubSeq(text, 1, j), SubSeq(text, j + 1, k), SubSeq(text, k + 1, Len(text))>> :
              j \in 1..(Len(text) - 2), k \in 2..(Len(text) - 1)}

ChunkBodies ==
    {ReviewJson(TestReviewText, 50), ReviewJson(TestReviewText, 40),
     ReviewJson(ShortReviewText, 50),
     Stringify([text |-> JStr(TestReviewText), username |-> JStr("test user")]),
     <<OpenBrace>>, <<OpenBrace, CloseBrace, CloseBrace>>}

ChunkRequests ==
    {Request("POST", "/business/" \o id \o "/reviews", chunks) :
        id \in {"1", Oid("6", 1)},
        chunks \in {d \in UNION {Deliveries(text) : text \in ChunkBodies} :
                        /\ Len(d) <= MaxChunks
                        /\ \A i \in 1..Len(d) : d[i] # <<>>}}

NextChunks ==
    \/ /\ BusinessCount < MaxChunkBusinesses
       /\ \E insertedId \in FreshIds :
            \/ CreateOnlineBusinessCall(TestOnline, insertedId)
            \/ CreatePhysicalBusinessCall(TestPhysical, insertedId)
    \/ \E req \in ChunkRequests : ParseJsonCall(req)
    \/ /\ ReviewCount < MaxChunkReviews
       /\ \E req \in ChunkRequests : HttpRequest(req, now, now)

SpecChunks == Init /\ [][NextChunks]_vars

---------------------------------------------------------------------------
(* Claims *)

\* the history of successful createReview calls that named business id
CreatedFor(id) == SelectSeq(created, LAMBDA c : c.business_id = id)

RECURSIVE SumOfRatings(_)
SumOfRatings(cs) == IF cs = <<>> THEN 0 ELSE Head(cs).rating + SumOfRatings(Tail(cs))

IsGetResponse == last.kind = "http" /\ last.req.method = "GET"
IsGetSuccess == IsGetResponse /\ last.res.status = StatusOk

\* C1: in the in-memory store, every business's total_reviews is the number
\* of createReview calls that succeeded for it, and its avg_rating is
\* floor(10 * (sum of all those ratings) / total_reviews) / 10, over the
\* whole history and not the three latest reviews only.
C1_TotalAndAverageOverHistory ==
    impl = "inmem" =>
        \A i \in 1..Len(businesses) :
            LET b == businesses[i].value
                mine == CreatedFor(b.id)
            IN /\ b.total_reviews = Len(mine)
               /\ b.avg_rating =
                      IF Len(mine) = 0 THEN 0 ELSE SumOfRatings(mine) \div Len(mine)

\* a business with more than three reviews whose mean is cut, not exact
C1_Witness ==
    /\ impl = "inmem"
    /\ \E i \in 1..Len(businesses) :
          LET mine == CreatedFor(businesses[i].value.id)
          IN /\ Len(mine) > LatestReviewsShown
             /\ businesses[i].value.total_reviews = Len(mine)
             /\ SumOfRatings(mine) % Len(mine) # 0
             /\ (2 * SumOfRatings(mine) + Len(mine)) \div (2 * Len(mine))
                    # businesses[i].value.avg_rating

\* the creation dates of a history increase strictly
StrictlyIncreasing(cs) ==
    \A i, j \in 1..Len(cs) : i < j => cs[i].date < cs[j].date

Min(a, b) == IF a < b THEN a ELSE b

\* C2: after k >= 1 reviews created with strictly increasing creation dates,
\* the first min(k, 3) entries of latest_reviews in the GET /business/:id
\* response are the min(k, 3) most recently created reviews, newest first.
C2_LatestReviewsNewestFirst ==
    IsGetSuccess =>
        LET body == last.res.body
            mine == CreatedFor(last.calls[1].args[1])
            k == Len(mine)
        IN (k >= 1 /\ StrictlyIncreasing(mine)) =>
               /\ Len(body.latest_reviews) >= Min(k, LatestReviewsShown)
               /\ \A j \in 1..Min(k, LatestReviewsShown) :
                      /\ body.latest_reviews[j].rating = mine[k + 1 - j].rating
                      /\ body.latest_reviews[j].creation_date = mine[k + 1 - j].date

\* C3: the latest_reviews of a successful GET /business/:id response has at
\* most 3 entries, in both repositories.
C3_LatestReviewsAtMostThree ==
    IsGetSuccess => Len(last.res.body.latest_reviews) <= LatestReviewsShown

---------------------------------------------------------------------------
(* Claims on businesses: SpecBusiness *)

IssuedIds == {issued[i].id : i \in 1..Len(issued)}

\* the id a request for /business/:id names
RequestedId == GetPathParam(Split(last.req.url))

\* C4: in-memory round trip.  After a business is created and before any
\* review is created for it, GET /business/<its id> answers 200 with a flat
\* JSON object: type, id, exactly the input fields with their values,
\* total_reviews 0, avg_rating 0 and latest_reviews [], and no nested value.
C4_RoundTripFlat ==
    (impl = "inmem" /\ IsGetResponse) =>
        \A i \in 1..Len(issued) :
            (issued[i].id = RequestedId /\ CreatedFor(RequestedId) = <<>>) =>
                /\ last.res.status = 200
                /\ last.res.contentType = "application/json"
                /\ last.res.body =
                       Spread(issued[i].data,
                              [type |-> issued[i].type,
                               id |-> issued[i].id,
                               total_reviews |-> 0,
                               avg_rating |-> 0,
                               latest_reviews |-> <<>>])
                /\ "value" \notin DOMAIN last.res.body

\* the second business, a physical one with a name at the limit, read back
C4_Witness ==
    /\ impl = "inmem"
    /\ IsGetSuccess
    /\ RequestedId = "2"
    /\ Len(issued) = 2
    /\ issued[2].type = "physical"
    /\ Len(issued[2].data.name) = 50
    /\ last.res.body.phone = TestPhysical.phone

IsGetBusinessCall == last.kind = "repo" /\ last.op = "getBusiness"

\* C5 as stated: in both repositories, for every id string never issued,
\* getBusiness returns record_not_found, never database_error, and
\* GET /business/<id> answers 404.
C5_NeverIssuedIsNotFound ==
    /\ (IsGetBusinessCall /\ last.args[1] \notin IssuedIds) =>
           last.result.type = "record_not_found"
    /\ (IsGetResponse /\ RequestedId \notin IssuedIds) =>
           last.res.status = 404

\* what the amended C5 expects of an id in a repository: the type of the
\* result of getBusiness, or "any" where it says nothing
C5_Expected(id) ==
    IF id \in IssuedIds THEN "any"
    ELSE IF impl = "inmem" THEN "record_not_found"
    ELSE IF ~(Len(id) = 24 /\ AllIn(id, HexChars)) THEN "database_error"
    ELSE IF ToLower(id) \in IssuedIds THEN "any"
    ELSE "record_not_found"

\* C5: in the in-memory store every never-issued id gives record_not_found
\* and 404.  In the document store a never-issued id of 24 hexadecimal
\* digits that names no stored object id gives record_not_found and 404; an
\* id that is not 24 hexadecimal digits gives database_error, and 400 when
\* the route hands it to the handler.
C5_NotFoundOrMalformed ==
    /\ IsGetBusinessCall =>
           \/ C5_Expected(last.args[1]) = "any"
           \/ last.result.type = C5_Expected(last.args[1])
    /\ IsGetResponse =>
           \/ C5_Expected(RequestedId) = "any"
           \/ /\ C5_Expected(RequestedId) = "record_not_found"
              /\ last.res.status = 404
           \/ /\ C5_Expected(RequestedId) = "database_error"
              /\ IF last.calls = <<>> THEN last.res.status = 404
                 ELSE /\ last.res.status = 400
                      /\ last.calls[1].result.type = "database_error"

\* the document store holds businesses and is asked for a well-formed id it
\* never issued
C5_Witness ==
    /\ impl = "mongo"
    /\ IsGetResponse
    /\ Len(businessCol) = 2
    /\ Len(RequestedId) = 24
    /\ ToLower(RequestedId) \notin IssuedIds
    /\ last.calls # <<>>
    /\ last.calls[1].result.type = "record_not_found"
    /\ last.res.status = 404

IsCreation(c) == c.op \in {"createOnlineBusiness", "createPhysicalBusiness"}

\* C7: a POST /business request whose body is a valid tagged union is
\* routed to create-business, which calls the matching creation operation
\* of the repository once, and is answered 201.
C7_PostBusinessCreates ==
    (/\ last.kind = "http"
     /\ last.req.method = "POST"
     /\ last.req.url = "/business"
     /\ last.req \in BusinessPosts) =>
        /\ last.res.status = 201
        /\ Len(last.calls) = 1
        /\ IsCreation(last.calls[1])

\* C8: createBusiness returns the error 'Business name is too long', and
\* calls no repository operation, exactly when the name is longer than 75
\* (online) or 50 (physical) characters; otherwise it calls the creation
\* operation of the variant, and only that one, once.  Hence no business
\* created through createBusiness has a name above its limit.
C8_NameLimits ==
    /\ last.kind = "createBusiness" =>
           LET input == last.input
               limit == IF input.type = "online" THEN 75 ELSE 50
               tooLong == Len(input.value.name) > limit
           IN /\ (last.result = "Business name is too long") <=> tooLong
              /\ tooLong => last.calls = <<>>
              /\ ~tooLong =>
                     /\ Len(last.calls) = 1
                     /\ last.calls[1].op = IF input.type = "online"
                                           THEN "createOnlineBusiness"
                                           ELSE "createPhysicalBusiness"
                     /\ last.calls[1].args = <<input.value>>
    /\ \A i \in 1..Len(issued) :
           issued[i].via = "createBusiness" =>
               Len(issued[i].data.name) <= IF issued[i].type = "online" THEN 75 ELSE 50

\* a physical name of 51 characters is refused, after one of 50 characters
\* was created
C8_Witness ==
    /\ last.kind = "createBusiness"
    /\ last.input.type = "physical"
    /\ Len(last.input.value.name) = 51
    /\ last.result = "Business name is too long"
    /\ \E i \in 1..Len(issued) :
          /\ issued[i].via = "createBusiness"
          /\ issued[i].type = "physical"
          /\ Len(issued[i].data.name) = 50

---------------------------------------------------------------------------
(* Claims on reviews: SpecValidation *)

IsPostReview ==
    /\ last.kind = "http"
    /\ last.req.method = "POST"
    /\ IsBusinessReviewsPath(Split(last.req.url))

\* the business a POST /business/:id/reviews names
PostedId == Split(last.req.url)[3]

\* C6: for POST /business/:id/reviews on an existing business with a body
\* of the review schema, the review is stored and the response is a success
\* exactly when the text has 20 to 500 characters and the rating is an
\* integer from 1 to 5; otherwise the response is 400 and createReview is
\* not called.
C6_ValidationDecides ==
    (/\ IsPostReview
     /\ PostedId \in IssuedIds
     /\ ParseJson(last.req).ok
     /\ PostReviewJsonSafeParse(ParseJson(last.req).value).success) =>
        LET input == PostReviewJsonSafeParse(ParseJson(last.req).value).data
            valid == /\ Len(input.text) >= 20
                     /\ Len(input.text) <= 500
                     /\ input.rating \in {10, 20, 30, 40, 50}
        IN IF valid
           THEN /\ last.res.status \in 200..299
                /\ Len(last.calls) = 1
                /\ last.calls[1].op = "createReview"
                /\ last.calls[1].result.type = "success"
           ELSE /\ last.res.status = 400
                /\ last.calls = <<>>

\* the repository calls of the operation a value of last describes
CallsOf(l) ==
    IF l.kind = "repo" THEN <<Call(l.op, l.args, l.result)>>
    ELSE IF l.kind \in {"http", "createBusiness"} THEN l.calls
    ELSE <<>>

\* no business of the store has this id
NoRecord(id) ==
    IF impl = "inmem" THEN \A i \in 1..Len(businesses) : businesses[i].value.id # id
    ELSE \/ ~(Len(id) = 24 /\ AllIn(id, HexChars))
         \/ \A i \in 1..Len(businessCol) : businessCol[i]._id # ToLower(id)

C9_Step ==
    /\ \A j \in 1..Len(CallsOf(last')) :
           LET c == CallsOf(last')[j]
           IN (c.op = "createReview" /\ NoRecord(c.args[1])) =>
                  /\ c.result.type = "database_error"
                  /\ UNCHANGED <<businesses, businessIdCounter, reviews, businessCol,
                                 created, issued>>
    /\ (/\ last'.kind \in {"http", "crash"}
        /\ last'.req.method = "POST"
        /\ IsBusinessReviewsPath(Split(last'.req.url))
        /\ NoRecord(Split(last'.req.url)[3])) =>
           /\ last'.kind = "http"
           /\ last'.res.status \in 400..599
           /\ running'
           /\ UNCHANGED <<businesses, businessIdCounter, reviews, businessCol,
                          created, issued>>

\* C9: in both repositories, createReview for a business id that does not
\* exist returns database_error and changes no stored business and no
\* stored review; over HTTP, POST /business/999/reviews for a business never
\* created gets a non-success response, and the server keeps serving.
C9_NoOrphanReview == [][C9_Step]_vars

\* business "1" has a review; a valid review posted to /business/999/reviews
\* reached createReview and was refused
C9_Witness ==
    /\ impl = "inmem"
    /\ IsPostReview
    /\ PostedId = "999"
    /\ Len(businesses) = 1
    /\ Len(reviews) = 1
    /\ Len(last.calls) = 1
    /\ last.calls[1].result.type = "database_error"
    /\ last.res.status \in 400..599
    /\ running

\* C10: a database_error from the repository while serving GET /business/:id
\* or POST /business/:id/reviews is answered with a status of the 500 class,
\* not 400 and not 404.
C10_DatabaseErrorIs5xx ==
    (/\ last.kind = "http"
     /\ \E j \in 1..Len(last.calls) : last.calls[j].result.type = "database_error") =>
        last.res.status \in 500..599

\* C11: a POST /business/:id/reviews request whose body is not valid JSON,
\* an empty body included, is answered with a status of the 400 class, not
\* 500.
C11_MalformedJsonIs4xx ==
    (IsPostReview /\ ~ParseJson(last.req).ok) => last.res.status \in 400..499

\* the body of a request is of the review schema and passes every rule of
\* the handler
IsValidReviewBody(req) ==
    /\ ParseJson(req).ok
    /\ PostReviewJsonSafeParse(ParseJson(req).value).success
    /\ LET input == PostReviewJsonSafeParse(ParseJson(req).value).data
       IN /\ Len(input.text) >= 20
          /\ Len(input.text) <= 500
          /\ input.rating \in {10, 20, 30, 40, 50}

\* C14: for every id a repository issued, object-id strings that start with
\* a letter included, POST /business/<id>/reviews with a valid body reaches
\* createReview of the repository with exactly that id.
C14_IdIsOpaque ==
    (IsPostReview /\ PostedId \in IssuedIds /\ IsValidReviewBody(last.req)) =>
        /\ Len(last.calls) = 1
        /\ last.calls[1].op = "createReview"
        /\ last.calls[1].args[1] = PostedId

---------------------------------------------------------------------------
(* Claims on the two repositories side by side: SpecPair *)

IsPair(op) == last.kind = "pair" /\ last.op = op

\* what a client sees of a review, its business id apart
ReviewSeen(r) ==
    [text |-> r.text, rating |-> r.rating, username |-> r.username,
     creation_date |-> r.creation_date]

\* C12: the two repositories are observationally equivalent: each call of a
\* series applied to both returns the same result tag in both, and
\* getBusiness returns the same business fields, total_reviews, avg_rating
\* and the same latest_reviews, the same reviews in the same order.
C12_StoresEquivalent ==
    last.kind = "pair" =>
        /\ last.inmem.result.type = last.mongo.result.type
        /\ (last.op = "getBusiness" /\ last.inmem.result.type = "success") =>
               LET a == last.inmem.result.value.value
                   b == last.mongo.result.value.value
               IN /\ \A f \in DOMAIN a \ {"id", "latest_reviews"} :
                         f \in DOMAIN b /\ a[f] = b[f]
                  /\ Len(a.latest_reviews) = Len(b.latest_reviews)
                  /\ \A j \in 1..Len(a.latest_reviews) :
                         ReviewSeen(a.latest_reviews[j]) = ReviewSeen(b.latest_reviews[j])

\* C13: in the document store, after reviews r1..rn were created one after
\* another for a business, getBusiness returns total_reviews n, avg_rating
\* floor(10 * mean of the n ratings) / 10 and latest_reviews r1..rn in
\* insertion order.
C13_MongoKeepsInsertionOrder ==
    (IsPair("getBusiness") /\ last.mongo.result.type = "success") =>
        LET b == last.mongo.result.value.value
            mine == CreatedFor(last.mongo.args[1])
            n == Len(mine)
        IN /\ b.total_reviews = n
           /\ b.avg_rating = IF n = 0 THEN 0 ELSE SumOfRatings(mine) \div n
           /\ Len(b.latest_reviews) = n
           /\ \A j \in 1..n :
                  /\ b.latest_reviews[j].rating = mine[j].rating
                  /\ b.latest_reviews[j].creation_date = mine[j].date
                  /\ b.latest_reviews[j].business_id = last.mongo.args[1]

\* ratings 5, 3, 3 at three different times: total 3, average 3.6, the
\* list 5, 3, 3
C13_Witness ==
    /\ IsPair("getBusiness")
    /\ last.mongo.result.type = "success"
    /\ LET b == last.mongo.result.value.value
       IN /\ b.total_reviews = 3
          /\ b.avg_rating = 36
          /\ [j \in 1..3 |-> b.latest_reviews[j].rating] = <<50, 30, 30>>
          /\ b.latest_reviews[1].creation_date < b.latest_reviews[2].creation_date
          /\ b.latest_reviews[2].creation_date < b.latest_reviews[3].creation_date

\* C19: the repositories do not validate again: called directly, createReview
\* on an existing business succeeds for any text length and any rating, and
\* the create-business operations succeed for any name length.
C19_NoRevalidation ==
    /\ (IsPair("createReview") /\ last.inmem.args[1] \in IssuedIds) =>
           last.inmem.result.type = "success"
    /\ (IsPair("createReview") /\ last.mongo.args[1] \in IssuedIds) =>
           /\ last.mongo.result.type = "success"
           /\ last.mongo.result.value.text = last.mongo.args[2].text
           /\ last.mongo.result.value.rating = last.mongo.args[2].rating
    /\ (IsPair("createOnlineBusiness") \/ IsPair("createPhysicalBusiness")) =>
           /\ last.inmem.result.type = "success"
           /\ last.mongo.result.type = "success"
           /\ last.inmem.result.value.name = last.inmem.args[1].name
           /\ last.mongo.result.value.name = last.mongo.args[1].name

\* an empty text with rating 7.5 is stored by both, for a business whose
\* name has 76 characters
C19_Witness ==
    /\ IsPair("createReview")
    /\ last.inmem.args[2].text = ""
    /\ last.inmem.args[2].rating = 75
    /\ last.inmem.result.type = "success"
    /\ last.mongo.result.type = "success"
    /\ \E i \in 1..Len(businesses) :
          /\ businesses[i].value.id = last.inmem.args[1]
          /\ Len(businesses[i].value.name) = 76
          /\ businesses[i].value.total_reviews >= 1
    /\ \E i \in 1..Len(businessCol) :
          /\ businessCol[i]._id = last.mongo.args[1]
          /\ Len(businessCol[i].name) = 76
          /\ businessCol[i].total_reviews >= 1

---------------------------------------------------------------------------
(* Claims on faults: SpecFaults *)

\* C15: no operation of the document store throws or rejects: whatever the
\* driver raises, an Error or any other value, the operation resolves to
\* database_error wrapping the cause.
C15_DriverFaultIsDatabaseError ==
    (/\ impl = "mongo"
     /\ last.kind = "repo"
     /\ "raises" \in DOMAIN last
     /\ (last.op \in {"getBusiness", "createReview"} =>
            Len(last.args[1]) = 24 /\ AllIn(last.args[1], HexChars))) =>
        /\ last.result.type = "database_error"
        /\ last.result.error = last.raises.value

\* the store handed to mainHandler in the step that wrote last'
C16_DbServed ==
    IF "raises" \in DOMAIN last' THEN Spread(Db, [raises |-> last'.raises]) ELSE Db

C16_Step ==
    last'.kind \in {"http", "crash"} =>
        /\ last'.kind = "http"
        /\ running'
        /\ "thrown" \in DOMAIN MainHandler(impl, C16_DbServed, last'.req, now, now) =>
               /\ last'.res.status = 500
               /\ last'.res.contentType = "text/plain"
               /\ last'.res.body = "Internal server error"
               /\ UNCHANGED <<businesses, businessIdCounter, reviews, businessCol>>

\* C16: whatever is thrown or rejected while mainHandler serves a request
\* is caught by the callback of the server and answered with one 500
\* 'Internal server error'; nothing escapes unhandled and the server goes
\* on answering.
C16_OuterCatch == [][C16_Step]_vars

\* the driver raised a value that is no Error under a request for a stored
\* business, and the request was answered 500 by a live server
C16_Witness ==
    /\ impl = "mongo"
    /\ last.kind = "http"
    /\ "raises" \in DOMAIN last
    /\ ~last.raises.isError
    /\ Len(businessCol) = 1
    /\ RequestedId = businessCol[1]._id
    /\ last.res.status = 500
    /\ last.logs = <<LogLine("error", last.raises.value)>>
    /\ running

\* C20: when a repository operation returns database_error, the response is
\* a fixed generic message: the same request served from the same store with
\* the driver raising an Error of any other message gets the same response,
\* for GET /business/:id and for POST /business/:id/reviews.
C20_ErrorBodyIsGeneric ==
    (/\ last.kind = "http"
     /\ "raises" \in DOMAIN last
     /\ last.calls # <<>>
     /\ last.calls[1].result.type = "database_error") =>
        \A raised \in {r \in Raised : r.isError} :
            ServerCallback(impl, DbRaising(raised), last.req, now, now).res = last.res

---------------------------------------------------------------------------
(* Claims on routing: SpecRouting *)

IsAlphanumericId(id) == id # "" /\ AllIn(id, AlnumChars)

\* the request is GET /business/<alphanumeric id>
IsGetBusinessRoute(req) ==
    /\ req.method = "GET"
    /\ Len(Split(req.url)) = 3
    /\ Split(req.url)[1] = ""
    /\ Split(req.url)[2] = "business"
    /\ IsAlphanumericId(Split(req.url)[3])

\* the request is POST /business/<alphanumeric id>/reviews
IsPostReviewRoute(req) ==
    /\ req.method = "POST"
    /\ Len(Split(req.url)) = 4
    /\ Split(req.url)[1] = ""
    /\ Split(req.url)[2] = "business"
    /\ IsAlphanumericId(Split(req.url)[3])
    /\ Split(req.url)[4] = "reviews"

\* C17: every request that is neither GET /business/<alphanumeric id> nor
\* POST /business/<alphanumeric id>/reviews is answered 404 with the body
\* 'No route for <method> <url>', and no repository operation is called.
C17_OtherRoutesNotFound ==
    (/\ last.kind = "http"
     /\ ~IsGetBusinessRoute(last.req)
     /\ ~IsPostReviewRoute(last.req)) =>
        /\ last.res.status = 404
        /\ last.res.body = "No route for " \o last.req.method \o " " \o last.req.url
        /\ last.calls = <<>>

---------------------------------------------------------------------------
(* Claims on reading: SpecReading *)

\* the store after the step
DbNext == [businesses |-> businesses',
           businessIdCounter |-> businessIdCounter',
           reviews |-> reviews',
           reviewsIdCounter |-> reviewsIdCounter',
           businessCol |-> businessCol',
           now |-> now']

\* what the GET requests observe of a store
Observed(db) ==
    [req \in ReadGets |-> ServerCallback(impl, db, req, db.now, db.now).res]

\* the stores before and after a step are observed alike, at once and after
\* any one review posted to both, at the same reading of the clock or later
C18_SameObservations ==
    /\ Observed(Db) = Observed(DbNext)
    /\ \A post \in ReadPosts, date \in now'..(now' + 1) :
           LET a == ServerCallback(impl, Db, post, date, date)
               b == ServerCallback(impl, DbNext, post, date, date)
           IN /\ a.res = b.res
              /\ Observed(a.db) = Observed(b.db)

C18_Step ==
    (last'.kind = "http" /\ last'.req.method = "GET") =>
        /\ ServerCallback(impl, DbNext, last'.req, now', now').res = last'.res
        /\ C18_SameObservations

\* C18: GET is idempotent: a GET /business/:id repeated with no create
\* operation in between gets the same status and the same JSON body, and a
\* GET changes nothing of what later requests observe, with or without
\* creation-date ties among the reviews.
C18_GetIsIdempotent == [][C18_Step]_vars

\* a GET of the in-memory store answered with three reviews or more, two of
\* them of the same date, in another order than they were pushed
C18_Witness ==
    /\ impl = "inmem"
    /\ IsGetSuccess
    /\ LET shown == last.res.body.latest_reviews
       IN /\ Len(shown) >= 3
          /\ \E i, j \in 1..Len(shown) :
                i # j /\ shown[i].creation_date = shown[j].creation_date
          /\ shown # SelectSeq(reviews, LAMBDA r : r.business_id = last.res.body.id)

---------------------------------------------------------------------------
(* Claims on store instances: SpecInstances *)

\* the ids the second store has issued: it never deletes a business
PeerIssuedIds == {peer.businesses[i].value.id : i \in 1..Len(peer.businesses)}

\* C21: an id issued by one in-memory store instance, passed to getBusiness
\* of a different in-memory store instance, returns record_not_found,
\* whatever businesses the second instance has created itself.
C21_OtherInstanceIsNotFound ==
    /\ (last.kind = "peer" /\ last.op = "getBusiness" /\ last.args[1] \in IssuedIds) =>
           last.result.type = "record_not_found"
    /\ (IsGetBusinessCall /\ last.args[1] \in PeerIssuedIds) =>
           last.result.type = "record_not_found"

---------------------------------------------------------------------------
(* Claims on names: SpecNaming *)

\* the names of the businesses the repository holds
StoredNames ==
    {businesses[i].value.name : i \in 1..Len(businesses)}
    \cup {businessCol[i].name : i \in 1..Len(businessCol)}

\* the name a JSON input carries, when it carries a string as its name
JsonName(json) ==
    IF /\ "value" \in DOMAIN json.object
       /\ TypeOf(json.object.value) = "object"
       /\ "name" \in DOMAIN json.object.value.object
       /\ TypeOf(json.object.value.object.name) = "string"
    THEN json.object.value.object.name.string
    ELSE Undefined

\* C22: every business that exists in a repository has a non-empty name:
\* the create-business schema and createBusiness reject an input whose name
\* is the empty string, so no creation operation is ever invoked with
\* name = "".
C22_NameIsNonEmpty ==
    /\ "" \notin StoredNames
    /\ (last.kind \in {"createBusiness", "refused"} /\ JsonName(last.json) = "") =>
           \/ last.kind = "refused"
           \/ last.result # Undefined /\ last.calls = <<>>
    /\ last.kind = "createBusiness" =>
           \A j \in 1..Len(last.calls) : last.calls[j].args[1].name # ""

\* the decimal strings in order
DecimalIds == <<"1", "2", "3", "4", "5">>

\* the businesses of a store carry the ids '1', '2', ... in the order of
\* their creation
C23_InSequence(bs) == \A i \in 1..Len(bs) : bs[i].value.id = DecimalIds[i]

\* a step keeps every business of a store, at its place and with its id,
\* its type and its name
C23_Kept(before, after) ==
    /\ Len(after) >= Len(before)
    /\ \A i \in 1..Len(before) :
           /\ after[i].value.id = before[i].value.id
           /\ after[i].type = before[i].type
           /\ after[i].value.name = before[i].value.name

C23_Step ==
    /\ C23_InSequence(businesses')
    /\ C23_InSequence(peer'.businesses)
    /\ C23_Kept(businesses, businesses')
    /\ C23_Kept(peer.businesses, peer'.businesses)
    /\ Len(issued') = Len(businesses')
    /\ \A i \in 1..Len(issued') :
           /\ issued'[i].id = DecimalIds[i]
           /\ issued'[i].id = businesses'[i].value.id
           /\ issued'[i].type = businesses'[i].type
    /\ \A i, j \in 1..Len(businesses') :
           i # j => businesses'[i].value.id # businesses'[j].value.id
    /\ (last'.kind \in {"repo", "peer"}
        /\ last'.op \in {"createOnlineBusiness", "createPhysicalBusiness"}) =>
           LET mine == IF last'.kind = "repo" THEN businesses ELSE peer.businesses
           IN /\ last'.result.type = "success"
              /\ last'.result.value.id = DecimalIds[Len(mine) + 1]
              /\ \A i \in 1..Len(mine) : mine[i].value.id # last'.result.value.id

\* C23: within one in-memory store instance, business ids are pairwise
\* distinct across online and physical businesses, are the decimal strings
\* '1', '2', '3', ... in creation order, are never reused, and the id of a
\* stored business never changes after creation.
C23_IdsInSequence == [][C23_Step]_vars

\* an online and then a physical business, '1' and '2', read after a review
\* of the first, beside a second store that issued '1' as well
C23_Witness ==
    /\ Len(businesses) = 2
    /\ businesses[1].type = "online" /\ businesses[1].value.id = "1"
    /\ businesses[2].type = "physical" /\ businesses[2].value.id = "2"
    /\ businesses[1].value.total_reviews = 1
    /\ IsGetBusinessCall /\ last.args[1] = "2" /\ last.result.type = "success"
    /\ Len(peer.businesses) >= 1

---------------------------------------------------------------------------
(* Claims on concurrent calls: SpecRace *)

\* the stored document of an object id
DocOf(mongoId) == businessCol[FindOne(businessCol, mongoId)]

\* a createReview that waited at findOne has returned
C24_Finished(l) == l.kind = "repo" /\ l.op = "createReview" /\ "held" \in DOMAIN l

C24_Step ==
    C24_Finished(last') =>
        LET held == last'.held
            after == businessCol'[FindOne(businessCol', held.mongoId)]
        IN /\ last'.result.type = "success"
           /\ Len(created') = Len(created) + 1
           \* what is stored is the copy read, with the one review more
           /\ Len(after.latest_reviews) = Len(held.business.latest_reviews) + 1
           /\ SubSeq(after.latest_reviews, 1, Len(held.business.latest_reviews))
                  = held.business.latest_reviews
           /\ after.latest_reviews[Len(after.latest_reviews)].rating = held.data.rating
           /\ after.total_reviews = held.business.total_reviews + 1
           \* whatever was stored since the read is gone
           /\ after.total_reviews <= DocOf(held.mongoId).total_reviews + 1

\* C24: in the document-store repository, createReview reads the business,
\* mutates the copy and writes it back in two separate store operations, so
\* two createReview calls on the same business can interleave (both read
\* before either writes) such that both return success but only one review
\* remains stored and total_reviews rises by 1 instead of 2.
C24_ReadModifyWrite == [][C24_Step]_vars

\* two calls on one business have returned success, none waits, and the
\* business holds one review, that of the call that wrote last
C24_Witness ==
    /\ inflight = <<>>
    /\ Len(businessCol) = 1
    /\ Len(CreatedFor(businessCol[1]._id)) = 2
    /\ businessCol[1].total_reviews = 1
    /\ Len(businessCol[1].latest_reviews) = 1
    /\ CreatedFor(businessCol[1]._id)[1].rating = 50
    /\ CreatedFor(businessCol[1]._id)[2].rating = 30
    /\ businessCol[1].latest_reviews[1].rating = 30
    /\ C24_Finished(last)
    /\ last.held.business.total_reviews = 0

---------------------------------------------------------------------------
(* Claims on interleaved requests: SpecInterleaved *)

\* C25: with the in-memory store, for every interleaving of concurrently
\* handled HTTP requests (handlers switching only at await points), no
\* review is lost: in every reachable state a business's total_reviews
\* equals the number of createReview calls on it that returned success, and
\* avg_rating is the truncated mean of exactly those reviews' ratings.
C25_NoReviewLost ==
    /\ Len(reviews) = Len(created)
    /\ \A i \in 1..Len(businesses) :
           LET b == businesses[i].value
               mine == CreatedFor(b.id)
           IN /\ b.total_reviews = Len(mine)
              /\ Len(b.latest_reviews) = Len(mine)
              /\ RatingsSum(b.latest_reviews) = SumOfRatings(mine)
              /\ b.avg_rating * Len(mine) <= SumOfRatings(mine)
              /\ SumOfRatings(mine) < (b.avg_rating + 1) * Len(mine) \/ Len(mine) = 0
              /\ Len(mine) = 0 => b.avg_rating = 0

\* three reviews of one business, their mean 4.66.. cut to 4.6, the last
\* created while a request that arrived before its own is still waiting
C25_Witness ==
    /\ Len(businesses) = 1
    /\ businesses[1].value.total_reviews = 3
    /\ businesses[1].value.avg_rating = 46
    /\ Len(inflight) = 2
    /\ inflight[1].at \in {"getBusiness", "parseJson"}
    /\ inflight[2].at = "createReview"
    /\ inflight[2].h.calls[1].result.type = "success"

---------------------------------------------------------------------------
(* Claims on what an operation leaves alone: SpecRace *)

\* the businesses of the two stores, each as a flat record with its id
Stored(bs, col) ==
    [i \in 1..Len(bs) |-> Spread(bs[i].value, [type |-> bs[i].type])]
    \o [i \in 1..Len(col) |-> Spread(col[i], [id |-> col[i]._id])]

\* the fields of a business that no operation writes after its creation
Fixed(b) == [f \in DOMAIN b \ {"total_reviews", "avg_rating", "latest_reviews"} |-> b[f]]

\* how often a review occurs in a list
Count(seq, r) == Cardinality({j \in 1..Len(seq) : seq[j] = r})

\* the reviews of before are all in after, as often
KeepsReviews(before, after) ==
    \A j \in 1..Len(before) : Count(after, before[j]) >= Count(before, before[j])

C26_Step ==
    LET before == Stored(businesses, businessCol)
        after == Stored(businesses', businessCol')
        succeeded == Len(created') - Len(created)
    IN \* no business is deleted or replaced by another
       /\ Len(after) >= Len(before)
       /\ \A i \in 1..Len(before) :
              /\ Fixed(after[i]) = Fixed(before[i])
              \* no stored review is modified or removed
              /\ KeepsReviews(before[i].latest_reviews, after[i].latest_reviews)
       \* one successful createReview: its business gains the one review,
       \* every other business is as it was
       /\ succeeded = 1 =>
              \A i \in 1..Len(before) :
                  IF before[i].id = created'[Len(created')].business_id
                  THEN /\ Len(after[i].latest_reviews) = Len(before[i].latest_reviews) + 1
                       /\ after[i].total_reviews = before[i].total_reviews + 1
                  ELSE after[i] = before[i]
       \* no other operation writes the aggregates
       /\ succeeded = 0 =>
              \A i \in 1..Len(before) :
                  /\ after[i].total_reviews = before[i].total_reviews
                  /\ after[i].avg_rating = before[i].avg_rating
                  /\ Len(after[i].latest_reviews) = Len(before[i].latest_reviews)

\* C26: frame.  A successful createReview on business b changes only b's
\* total_reviews, avg_rating and review list, which only grows by the one
\* new review; b's id, type, name, email and variant fields and every other
\* business are unchanged, already stored reviews are never modified or
\* removed, and no operation ever deletes a business.
C26_Frame == [][C26_Step]_vars

---------------------------------------------------------------------------
(* Claims on the order of reviews: SpecReading *)

\* the reviews of a business in the order createReview pushed them
InsertedFor(id) == SelectSeq(reviews, LAMBDA r : r.business_id = id)

\* the ways to take n things one after another
Orders(n) == {p \in [1..n -> 1..n] : \A i, j \in 1..n : i # j => p[i] # p[j]}

\* list is inserted put newest first, the reviews of one date in the order
\* of their insertion
NewestFirstThenInserted(list, inserted) ==
    /\ Len(list) = Len(inserted)
    /\ \E p \in Orders(Len(inserted)) :
          /\ \A i \in 1..Len(list) : list[i] = inserted[p[i]]
          /\ \A i, j \in 1..Len(list) :
                 i < j =>
                     \/ inserted[p[i]].creation_date > inserted[p[j]].creation_date
                     \/ /\ inserted[p[i]].creation_date = inserted[p[j]].creation_date
                        /\ p[i] < p[j]

\* C27: in the in-memory store's getBusiness, reviews with equal
\* creation_date keep their insertion order relative to each other in the
\* returned latest_reviews (earlier-inserted first among the tied ones),
\* while reviews with different creation_date are ordered newest first; this
\* holds regardless of how many getBusiness calls were made between the
\* insertions.
C27_TiesKeepInsertionOrder ==
    (impl = "inmem" /\ IsGetSuccess) =>
        LET returned == last.calls[1].result.value
            inserted == InsertedFor(last.calls[1].args[1])
        IN /\ NewestFirstThenInserted(returned.value.latest_reviews, inserted)
           /\ returned.latest_reviews
                  = SubSeq(returned.value.latest_reviews, 1, Min(3, Len(inserted)))

\* two reviews of one date, rated 4 and then 5, and a later one: returned
\* the later first, then the two as they were inserted
C27_Witness ==
    /\ impl = "inmem"
    /\ IsGetSuccess
    /\ LET returned == last.calls[1].result.value.latest_reviews
           inserted == InsertedFor(last.calls[1].args[1])
       IN /\ Len(inserted) = 3
          /\ inserted[1].creation_date = inserted[2].creation_date
          /\ inserted[1].rating = 40 /\ inserted[2].rating = 50
          /\ inserted[3].creation_date > inserted[2].creation_date
          /\ returned = <<inserted[3], inserted[1], inserted[2]>>

---------------------------------------------------------------------------
(* Claims on the revision of src/src/server.ts: SpecServerTs *)

\* C28: in the revision of src/src/server.ts, POST /business/<id>/reviews
\* with a valid body for an existing business id passes that id to
\* createReview, is answered 200, and increments that business's
\* total_reviews by one, so that after n such posts GET /business/<id>
\* reports total_reviews = n.
C28_PostReviewCounts ==
    /\ (IsPostReview /\ PostedId \in IssuedIds /\ IsValidReviewBody(last.req)) =>
           /\ last.res.status = 200
           /\ Len(last.calls) = 1
           /\ last.calls[1].op = "createReview"
           /\ last.calls[1].args[1] = PostedId
           /\ last.calls[1].result.type = "success"
    /\ (IsGetSuccess /\ RequestedId \in IssuedIds) =>
           last.res.body.total_reviews = Len(CreatedFor(RequestedId))

---------------------------------------------------------------------------
(* Claims on the responses written: SpecResponses *)

\* C29: every request whose body is fully received gets exactly one
\* response: on every path through mainHandler, getBusinessHandler,
\* postReviewHandler and the catch of the callback the head of the response
\* is written once and the response is ended once, never zero times and
\* never twice.
C29_ExactlyOneResponse ==
    last.kind \in {"http", "crash"} =>
        /\ last.kind = "http"
        /\ last.res.heads = 1
        /\ last.res.ends = 1

\* a valid review posted for a stored business while the driver raised: the
\* rejection went through the catch, which wrote the only response, a 500
C29_Witness ==
    /\ last.kind = "http"
    /\ "raises" \in DOMAIN last
    /\ last.req.method = "POST"
    /\ IsValidReviewBody(last.req)
    /\ last.res.status = 500
    /\ last.res.heads = 1
    /\ last.res.ends = 1

---------------------------------------------------------------------------
(* Claims on parseJson: SpecChunks *)

RECURSIVE WholeBody(_)
\* the complete body of a request: its chunks one after the other
WholeBody(chunks) ==
    IF chunks = <<>> THEN <<>> ELSE Head(chunks) \o WholeBody(Tail(chunks))

\* C30: parseJson resolves with the JSON value of the complete request body
\* however the body is delivered: a valid JSON body arriving as several
\* 'data' events before 'end' yields the same parsed value as the same body
\* arriving in a single 'data' event.
C30_ChunksParseAsWhole ==
    (last.kind = "parseJson" /\ JsonParse(WholeBody(last.req.chunks)).ok) =>
        last.result = ParseJson([last.req EXCEPT !.chunks = <<WholeBody(last.req.chunks)>>])

=============================================================================
